---- MODULE Spec2Model ----
(***************************************************************************)
(* Model of the concurrent event-routing core of crossexpand:              *)
(*   - LockFreeQueue / EventQueue   (include/core/event_queue.hpp,         *)
(*                                   src/core/event_queue.cpp)             *)
(*   - ThreadWorker / MultithreadedProcessor                               *)
(*                                  (src/core/multithreaded_processor.cpp) *)
(*                                                                         *)
(* Atomic loads and stores are interleaved one per step (sequentially      *)
(* consistent interleaving); the non-atomic copy of a ProcessingEvent into *)
(* or out of a slot takes two steps, so that a copy that overlaps another  *)
(* thread's write is observable as a torn event.                           *)
(***************************************************************************)
EXTENDS Integers, Sequences, FiniteSets, TLC

(***************************************************************************)
(* Bounds of the model.                                                    *)
(***************************************************************************)
\* The ring has 2^LogCapacity slots (QUEUE_SIZE is 4096 = 2^12 in the source).
LogCapacity == 2
\* Number of push/pop calls of the single-threaded caller.
MaxCalls == 6
\* Number of push calls of the producer thread, and of pop calls of each
\* consumer thread, when they run concurrently.
MaxPushes == 5
MaxPops == 5
\* The same with two consumer threads.
MaxPushesMC == 4
MaxPopsMC == 2
\* Number of start/stop/join calls made on one ThreadWorker by its owner.
MaxWorkerCalls == 4
\* Units of work the worker threads do between them (the sum of their
\* tasks_processed_ counters).
MaxTasks == 1
\* Number of initialize/shutdown calls made on the pool.
MaxPoolCalls == 3
MaxSerialCalls == 2
MaxProcessorThreads == 4
\* Number of further push/pop calls made on a queue that has been in use.
MaxHealthCalls == 2
\* Width of the queue's counters where they are let wrap.
CounterBits == 2
\* The HIGH or CRITICAL events the producer lets queue up under sustained traffic.
MaxTraffic == 2
\* Number of start() calls the pool sees fail (by the 100 ms timeout or by
\* std::system_error).
MaxStartFailures == 1

(***************************************************************************)
(* Program constants.                                                      *)
(***************************************************************************)
NUM_PRIORITIES == 4
LOW == 0
NORMAL == 1
HIGH == 2
CRITICAL == 3

QUEUE_SIZE == 2 ^ LogCapacity

Priorities == 0 .. (NUM_PRIORITIES - 1)
Indices == 0 .. (QUEUE_SIZE - 1)
\* The caller's i-th push carries the i-th key of a short cycle ('A' + i % 26 in
\* test_event_queue_thread_safety).
Keys == <<"A", "B", "C">>
KeyOf(i) == Keys[(i % Len(Keys)) + 1]

\* ProcessingEvent: key_event (the payload), priority, sequence_id.
ProcessingEvent(ke, prio) == [key_event |-> ke, priority |-> prio, sequence_id |-> 0]
\* The content of a slot that was never written, and of an out-parameter
\* that pop() did not assign.
Blank == [key_event |-> "none", priority |-> 0, sequence_id |-> 0]

VARIABLES
    \* EventQueue
    queues_,            \* [Priorities -> [head_, tail_, slots_]]
    total_pushed_,
    total_popped_,
    drops_by_priority_,
    sequence_counter_,
    \* single-threaded caller: the calls made so far, with their results
    calls,
    \* producer and consumer threads inside push() and pop()
    pc,                 \* [threads -> the statement the thread is at]
    loc,                \* [QueueThreads \cup StatThreads -> its local variables]
    prodPriority,       \* the priority the producer thread pushes at
    accepted,           \* events whose try_push passed the full check, in order

    returned,           \* events returned by pop(), in order, with the consumer
    \* ThreadWorker objects and their threads
    worker,             \* [WorkerIds -> the object's fields, its thread, its calls]
    fault,              \* "none", or how the process died ("terminate", "uncaught", ...)
    \* MultithreadedProcessor and the threads calling it
    pool,               \* is_running_, workers_, the three component handles, mutex_
    caller,             \* [PoolCallers -> where the thread is in a pool call, its calls]
    \* FixedSizePool and the threads that allocate from it
    fpool,              \* free_list_, the blocks' next pointers, the counters, mutex_
    holder              \* [MemThreads -> where the thread is, the blocks it holds]

qvars == <<queues_, total_pushed_, total_popped_, drops_by_priority_, sequence_counter_>>
tvars == <<pc, loc, prodPriority, accepted, returned>>
wvars == <<worker, fault>>
mvars == <<fpool, holder>>
pvars == <<pool, caller, mvars>>
vars == <<qvars, calls, tvars, wvars, pvars>>

(***************************************************************************)
(* LockFreeQueue<T, Capacity>                                              *)
(***************************************************************************)
EmptySlot == [ready |-> FALSE, data |-> Blank]
EmptyRing == [head_ |-> 0, tail_ |-> 0, slots_ |-> [i \in Indices |-> EmptySlot]]

\* (i + 1) & (Capacity - 1), Capacity a power of two
NextIndex(i) == (i + 1) % QUEUE_SIZE

\* size(): (head - tail) & (Capacity - 1) on unsigned indices
SizeUnmasked(head, tail) == (head - tail) % (2 * QUEUE_SIZE)
SizeOf(head, tail) == (head - tail) % QUEUE_SIZE
size(r) == SizeOf(r.head_, r.tail_)
capacity == QUEUE_SIZE - 1
full(r) == size(r) = QUEUE_SIZE - 1
empty(r) == size(r) = 0

\* The slot try_push writes and the slot try_pop reads.
PushSlot(r) == r.head_
PopSlotNewest(r) == (r.head_ + QUEUE_SIZE - 1) % QUEUE_SIZE
PopSlot(r) == r.tail_

\* try_push's test for a full ring: next_head == tail
NeverFull(head, tail) == FALSE
FullOneEarly(head, tail) == NextIndex(NextIndex(head)) = tail
IsFullAt(head, tail) == NextIndex(head) = tail

\* try_push run to completion: [ok, q]
try_push(r, item) ==
    IF IsFullAt(r.head_, r.tail_)
    THEN [ok |-> FALSE, q |-> r]
    ELSE [ok |-> TRUE,
          q  |-> [r EXCEPT !.slots_[PushSlot(r)] = [ready |-> TRUE, data |-> item],
                           !.head_ = NextIndex(r.head_)]]

\* try_pop run to completion: [ok, item, q]; the moved-from slot keeps its
\* bytes (ProcessingEvent is trivially copyable).
try_pop(r) ==
    IF ~r.slots_[PopSlot(r)].ready
    THEN [ok |-> FALSE, item |-> Blank, q |-> r]
    ELSE [ok |-> TRUE,
          item |-> r.slots_[PopSlot(r)].data,
          q  |-> [r EXCEPT !.slots_[PopSlot(r)].ready = FALSE,
                           !.tail_ = NextIndex(PopSlot(r))]]

(***************************************************************************)
(* EventQueue, each call run to completion by one thread.                  *)
(***************************************************************************)
\* pop() scans for (priority = NUM_PRIORITIES - 1; priority >= 0; --priority)
PopScanAscending == [i \in 1 .. NUM_PRIORITIES |-> i - 1]
PopScanOrder == [i \in 1 .. NUM_PRIORITIES |-> NUM_PRIORITIES - i]

\* sequence_counter_ after fetch_add(1)
SequenceStuck(c) == c
SequenceAfter(c) == c + 1

\* total_pushed_ after a push whose try_push returned ok
PushedAfterAlways(ok) == total_pushed_ + 1
PushedAfter(ok) == IF ok THEN total_pushed_ + 1 ELSE total_pushed_

\* total_popped_ after a successful pop
PoppedAfterStale == total_popped_
PoppedAfter == total_popped_ + 1

total_size ==
    LET RECURSIVE Sum(_)
        Sum(p) == IF p = NUM_PRIORITIES THEN 0 ELSE size(queues_[p]) + Sum(p + 1)
    IN Sum(0)

\* A completed call: for a push, out is the event as try_push was given it
\* (event_copy); for a pop, out is the event assigned to the out-parameter.
CallRec(op, prio, ke, ret, out) ==
    [op |-> op, priority |-> prio, key_event |-> ke, ret |-> ret, out |-> out]

NumCalls(op) == Cardinality({i \in 1 .. Len(calls) : calls[i].op = op})

\* push(): priority_index = static_cast<size_t>(event.priority), the ring
\* and the drop counter the push uses
OneRingForAll(event) == 0
PriorityClamped(event) == IF event.priority >= NUM_PRIORITIES THEN CRITICAL ELSE event.priority
priority_index(event) == event.priority

\* bool EventQueue::push(const ProcessingEvent& event)
Push(event) ==
    /\ Len(calls) < MaxCalls
    /\ priority_index(event) < NUM_PRIORITIES
    /\ LET event_copy == [event EXCEPT !.sequence_id = sequence_counter_]
           res == try_push(queues_[priority_index(event)], event_copy)
       IN /\ sequence_counter_' = SequenceAfter(sequence_counter_)
          /\ queues_' = [queues_ EXCEPT ![priority_index(event)] = res.q]
          /\ total_pushed_' = PushedAfter(res.ok)
          /\ drops_by_priority_' =
                IF res.ok THEN drops_by_priority_
                ELSE [drops_by_priority_ EXCEPT ![priority_index(event)] = @ + 1]
          /\ total_popped_' = total_popped_
          /\ calls' = Append(calls,
                CallRec("push", event.priority, event.key_event, res.ok, event_copy))
          /\ UNCHANGED <<tvars, wvars, pvars>>

\* bool EventQueue::pop(ProcessingEvent& event)
Pop ==
    /\ Len(calls) < MaxCalls
    /\ UNCHANGED <<tvars, wvars, pvars>>
    /\ LET hits == {i \in 1 .. NUM_PRIORITIES : try_pop(queues_[PopScanOrder[i]]).ok}
       IN IF hits = {}
          THEN /\ calls' = Append(calls, CallRec("pop", 0, "none", FALSE, Blank))
               /\ UNCHANGED qvars
          ELSE LET first == CHOOSE i \in hits : \A j \in hits : i <= j
                   p == PopScanOrder[first]
                   res == try_pop(queues_[p])
               IN /\ queues_' = [queues_ EXCEPT ![p] = res.q]
                  /\ total_popped_' = PoppedAfter
                  /\ calls' = Append(calls, CallRec("pop", 0, "none", TRUE, res.item))
                  /\ UNCHANGED <<total_pushed_, drops_by_priority_, sequence_counter_>>

QueueInit ==
    /\ queues_ = [p \in Priorities |-> EmptyRing]
    /\ total_pushed_ = 0
    /\ total_popped_ = 0
    /\ drops_by_priority_ = [p \in Priorities |-> 0]
    /\ sequence_counter_ = 0

Producer == "prod"
Consumers == {"c1", "c2"}
QueueThreads == {Producer} \cup Consumers
\* A thread of the process that writes to the log (the thread that starts
\* and stops the workers).
LogThreads == {"main"}
\* A thread that reads the statistics (the health monitor).
StatThreads == {"monitor"}

\* Locals of a thread in push()/try_push() or pop()/try_pop(): the event
\* (event_copy, or the out-parameter), the scan position of pop(), the
\* loaded head or tail, and the number of calls it has completed.
NoLocals == [item |-> Blank, scan |-> 1, index |-> 0, n |-> 0]

ThreadsIdle ==
    /\ pc = [t \in QueueThreads \cup LogThreads \cup StatThreads |-> "idle"]
    /\ loc = [t \in QueueThreads \cup StatThreads |-> NoLocals]
    /\ accepted = <<>>
    /\ returned = <<>>

(***************************************************************************)
(* ThreadWorker                                                            *)
(***************************************************************************)
NumWorkers == 6
WorkerIds == 1 .. NumWorkers
ThreadTypes ==
    {"INPUT_MONITOR", "EVENT_PROCESSOR", "TEXT_INJECTOR", "HEALTH_MONITOR", "CONFIG_WATCHER"}

\* A ThreadWorker object: its fields, the thread it spawned (thread: where
\* that thread is in run(); joinable: thread_.joinable()), the member function
\* its owner is in (call), and the calls the owner has completed on it.
\*   thread: "none" | "entry" | "check" (at the loop's test) | "work" (in
\*           execute_work()) | "done"
\* raised counts the errors raised inside its units of work.
NewWorker(type) ==
    [alive |-> TRUE, type_ |-> type,
     should_stop_ |-> FALSE, is_running_ |-> FALSE, tasks_processed_ |-> 0,
     joinable |-> FALSE, thread |-> "none", raised |-> 0,
     call |-> "idle", hist |-> <<>>]
NoWorker == [NewWorker("INPUT_MONITOR") EXCEPT !.alive = FALSE]

NoWorkers ==
    /\ worker = [w \in WorkerIds |-> NoWorker]
    /\ fault = "none"

(***************************************************************************)
(* FixedSizePool<BlockSize, BlockCount>                                    *)
(***************************************************************************)
\* The template parameter, and the blocks of memory_ by their index + 1.
BlockCount == 2
Blocks == 1 .. BlockCount
nullptr == 0

\* The threads that allocate from the pool, and the allocate() calls of each.
MemThreads == {"m1", "m2"}
MaxMemCalls == 2

\* The object after its constructor.  initialize() writes into each block
\* the address of the one after it, nullptr into the last, and points
\* free_list_ at the first.  next[b] is the pointer stored in block b's
\* first bytes; mutex_ is "free" or the thread that holds it.
NewFixedSizePool ==
    [free_list_ |-> 1,
     next |-> [b \in Blocks |-> IF b < BlockCount THEN b + 1 ELSE nullptr],
     allocated_count_ |-> 0, peak_usage_ |-> 0, mutex_ |-> "free"]

\* A thread using the pool: where it is in allocate() or deallocate() (pc),
\* allocate()'s result, deallocate()'s ptr, the blocks it got from
\* allocate() and has not passed to deallocate() (local_ptrs), the number of
\* its allocate() calls, the call it completed last, and the blocks it has
\* passed to deallocate() so far (freed).
NoMemCall == [op |-> "none", block |-> nullptr]
NewHolder ==
    [pc |-> "idle", result |-> nullptr, ptr |-> nullptr, local_ptrs |-> {},
     allocations |-> 0, last |-> NoMemCall, freed |-> {}]

NewMemory ==
    /\ fpool = NewFixedSizePool
    /\ holder = [t \in MemThreads |-> NewHolder]

(***************************************************************************)
(* MultithreadedProcessor                                                  *)
(***************************************************************************)
\* The threads that call the pool.
PoolCallers == {"main", "other"}

\* The object after its constructor: the three components exist, no workers.
\* workers_ holds the workers' ids in order; a handle is "live" or "null".
NewPool ==
    [is_running_ |-> FALSE, workers_ |-> <<>>,
     event_queue_ |-> "live", template_engine_ |-> "live", text_injector_ |-> "live",
     mutex_ |-> "free"]

\* A thread that calls the pool: where it is (pc), its position in the loop
\* over workers_ (i), start_worker_threads()'s all_started, where cleanup()
\* or create_worker_threads() goes on after workers_.clear() (next), the
\* number of start() calls it has seen fail (failed), whether it is inside
\* the pool's destructor (dtor), and the calls it has completed.
NoPoolCall ==
    [pc |-> "idle", i |-> 1, all_started |-> TRUE, next |-> "idle", failed |-> 0,
     dtor |-> FALSE, hist |-> <<>>]

NoPool ==
    /\ pool = NewPool
    /\ caller = [c \in PoolCallers |-> NoPoolCall]
    /\ NewMemory

(***************************************************************************)
(* EventQueue::is_healthy, on queues that have been in use for long enough *)
(* for its drop-rate test to apply.                                        *)
(***************************************************************************)
\* is_healthy(): the drop rate counts once total_pushed exceeds this
HEALTH_MIN_PUSHED == 1000
\* is_healthy(): drop_rate > 0.01, with the rate a quotient of two counters
DROP_RATE_PERCENT == 1

\* get_stats(): stats.total_dropped
total_dropped ==
    LET RECURSIVE Sum(_)
        Sum(p) == IF p = NUM_PRIORITIES THEN 0 ELSE drops_by_priority_[p] + Sum(p + 1)
    IN Sum(0)

\* static_cast<double>(total_dropped) / total_pushed > 0.01
DropRateAtLeast(dropped, pushed) == 100 * dropped >= DROP_RATE_PERCENT * pushed
DropRateExceeds(dropped, pushed) == 100 * dropped > DROP_RATE_PERCENT * pushed

\* bool EventQueue::is_healthy() const
EventQueue_is_healthy ==
    IF \E p \in Priorities : full(queues_[p])
    THEN FALSE
    ELSE IF total_pushed_ > HEALTH_MIN_PUSHED
         THEN IF DropRateExceeds(total_dropped, total_pushed_) THEN FALSE ELSE TRUE
         ELSE TRUE

\* The queue after this use by one thread, all of it at priority p: the ring
\* is filled, `dropped` further pushes are dropped, pops and pushes then
\* alternate until `pushed` pushes have succeeded, and pops leave n events.
\* The j-th accepted event went to slot (j - 1) % QUEUE_SIZE; after the ring
\* was first filled it is the (j + dropped)-th push, which sets its key and
\* its sequence_id.
UsedRing(pushed, dropped, n, p) ==
    LET LastAt(i) == CHOOSE j \in (pushed - QUEUE_SIZE + 1) .. pushed :
                         (j - 1) % QUEUE_SIZE = i
        EventNo(j) == [key_event |-> KeyOf(j - 1 + dropped), priority |-> p,
                       sequence_id |-> j - 1 + dropped]
    IN [head_ |-> pushed % QUEUE_SIZE,
        tail_ |-> (pushed - n) % QUEUE_SIZE,
        slots_ |-> [i \in Indices |->
                      [ready |-> LastAt(i) > pushed - n, data |-> EventNo(LastAt(i))]]]

HealthPushed == {HEALTH_MIN_PUSHED, HEALTH_MIN_PUSHED + 1, HEALTH_MIN_PUSHED + 100}
HealthDropped == {0, 10, 11, 12}

InitHealth ==
    /\ \E pushed \in HealthPushed, dropped \in HealthDropped,
          n \in 0 .. capacity, p \in Priorities :
          /\ queues_ = [q \in Priorities |->
                          IF q = p THEN UsedRing(pushed, dropped, n, p) ELSE EmptyRing]
          /\ total_pushed_ = pushed
          /\ total_popped_ = pushed - n
          /\ drops_by_priority_ = [q \in Priorities |-> IF q = p THEN dropped ELSE 0]
          /\ sequence_counter_ = pushed + dropped
    /\ calls = <<>>
    /\ ThreadsIdle
    /\ prodPriority = NORMAL
    /\ NoWorkers
    /\ NoPool

\* A few more calls by the one thread.
HealthPush(p) ==
    /\ Len(calls) < MaxHealthCalls
    /\ Push(ProcessingEvent(KeyOf(sequence_counter_), p))

HealthPop ==
    /\ Len(calls) < MaxHealthCalls
    /\ Pop

NextHealth ==
    \/ \E p \in Priorities : HealthPush(p)
    \/ HealthPop

SpecHealth == InitHealth /\ [][NextHealth]_vars

InitSeq ==
    /\ QueueInit
    /\ calls = <<>>
    /\ ThreadsIdle
    /\ prodPriority = NORMAL
    /\ NoWorkers
    /\ NoPool

NextSeq ==
    \/ \E p \in Priorities : Push(ProcessingEvent(KeyOf(NumCalls("push")), p))
    \/ Pop

\* One thread calling push and pop, each call run to completion.
SpecSeq == InitSeq /\ [][NextSeq]_vars

\* push() of an event whose priority is not one of the four:
\*   if (priority_index >= NUM_PRIORITIES) { LOG_ERROR(...); return false; }
PushInvalid(event) ==
    IF priority_index(event) >= NUM_PRIORITIES
    THEN /\ Len(calls) < MaxCalls
         /\ calls' = Append(calls,
                CallRec("push", event.priority, event.key_event, FALSE, event))
         /\ UNCHANGED <<qvars, tvars, wvars, pvars>>
    ELSE Push(event)

\* void EventQueue::reset_stats(): the three kinds of counter are stored 0;
\* the rings and sequence_counter_ are not touched.
CountAfterResetKept(count) == count
CountAfterReset(count) == 0

ResetStats ==
    /\ Len(calls) < MaxCalls
    /\ total_pushed_' = CountAfterReset(total_pushed_)
    /\ total_popped_' = CountAfterReset(total_popped_)
    /\ drops_by_priority_' = [p \in Priorities |-> CountAfterReset(drops_by_priority_[p])]
    /\ calls' = Append(calls, CallRec("reset_stats", 0, "none", TRUE, Blank))
    /\ UNCHANGED <<queues_, sequence_counter_, tvars, wvars, pvars>>

\* The one thread also pushes events of an invalid priority and resets the
\* statistics.
NextReset ==
    \/ \E p \in Priorities : Push(ProcessingEvent(KeyOf(NumCalls("push")), p))
    \/ Pop
    \/ \E q \in {NUM_PRIORITIES} : PushInvalid(ProcessingEvent(KeyOf(NumCalls("push")), q))
    \/ ResetStats
SpecReset == InitSeq /\ [][NextReset]_vars

(***************************************************************************)
(* One thread pushing and popping without end, under sustained traffic at  *)
(* the higher priorities: pop() is called only while a HIGH or CRITICAL    *)
(* event is queued.  The counters are unsigned 64-bit and wrap; here they  *)
(* have CounterBits bits, and `calls` keeps the last call only.            *)
(***************************************************************************)
StarvedPriorities == {LOW, NORMAL}
TrafficPriorities == {HIGH, CRITICAL}

Wrap(n) == n % (2 ^ CounterBits)

\* bool EventQueue::push(const ProcessingEvent& event), counters wrapping
PushWrapping(p) ==
    LET event == ProcessingEvent(KeyOf(sequence_counter_), p)
        event_copy == [event EXCEPT !.sequence_id = sequence_counter_]
        res == try_push(queues_[p], event_copy)
    IN /\ p < NUM_PRIORITIES
       /\ sequence_counter_' = Wrap(SequenceAfter(sequence_counter_))
       /\ queues_' = [queues_ EXCEPT ![p] = res.q]
       /\ total_pushed_' = Wrap(PushedAfter(res.ok))
       /\ drops_by_priority_' =
             IF res.ok THEN drops_by_priority_
             ELSE [drops_by_priority_ EXCEPT ![p] = Wrap(@ + 1)]
       /\ total_popped_' = total_popped_
       /\ calls' = <<CallRec("push", p, event.key_event, res.ok, event_copy)>>
       /\ UNCHANGED <<tvars, wvars, pvars>>

\* bool EventQueue::pop(ProcessingEvent& event), counters wrapping
PopWrapping ==
    /\ UNCHANGED <<tvars, wvars, pvars>>
    /\ LET hits == {i \in 1 .. NUM_PRIORITIES : try_pop(queues_[PopScanOrder[i]]).ok}
       IN IF hits = {}
          THEN /\ calls' = <<CallRec("pop", 0, "none", FALSE, Blank)>>
               /\ UNCHANGED qvars
          ELSE LET first == CHOOSE i \in hits : \A j \in hits : i <= j
                   p == PopScanOrder[first]
                   res == try_pop(queues_[p])
               IN /\ queues_' = [queues_ EXCEPT ![p] = res.q]
                  /\ total_popped_' = Wrap(PoppedAfter)
                  /\ calls' = <<CallRec("pop", 0, "none", TRUE, res.item)>>
                  /\ UNCHANGED <<total_pushed_, drops_by_priority_, sequence_counter_>>

\* The producer puts one event in each LOW and NORMAL ring and leaves it
\* there, and pushes its traffic at prodPriority, keeping up to MaxTraffic
\* events queued.
PushStarved(p) ==
    /\ p \in StarvedPriorities
    /\ empty(queues_[p])
    /\ PushWrapping(p)

PushTraffic ==
    /\ prodPriority \in TrafficPriorities
    /\ size(queues_[prodPriority]) < MaxTraffic
    /\ PushWrapping(prodPriority)

PopUnderTraffic ==
    /\ \E p \in TrafficPriorities : ~empty(queues_[p])
    /\ PopWrapping

InitStarve ==
    /\ QueueInit
    /\ calls = <<>>
    /\ ThreadsIdle
    /\ prodPriority \in TrafficPriorities
    /\ NoWorkers
    /\ NoPool

NextStarve ==
    \/ \E p \in Priorities : PushStarved(p)
    \/ PushTraffic
    \/ PopUnderTraffic

\* The producer keeps pushing and the consumer keeps calling pop() while
\* there is traffic.
SpecStarve ==
    /\ InitStarve
    /\ [][NextStarve]_vars
    /\ \A p \in StarvedPriorities : WF_vars(PushStarved(p))
    /\ WF_vars(PushTraffic)
    /\ WF_vars(PopUnderTraffic)

(***************************************************************************)
(* EventQueue with a producer thread in push() and consumer threads in     *)
(* pop(): one step per atomic access, two steps per copy of an event.      *)
(***************************************************************************)
Goto(t, label) == pc' = [pc EXCEPT ![t] = label]
\* The call returns: the thread is idle again and has completed one more call.
Return(t) ==
    /\ pc' = [pc EXCEPT ![t] = "idle"]
    /\ loc' = [loc EXCEPT ![t].n = @ + 1]

\* The ring the thread works on: push() indexes queues_ by the event's
\* priority, pop() by its loop variable.
PushPriority(t) == loc[t].item.priority
PopPriority(t) == PopScanOrder[loc[t].scan]

\* push(key_event, priority): ProcessingEvent event(key_event, priority),
\* then the priority check of push(event).
PushCall(t, p, max) ==
    /\ pc[t] = "idle"
    /\ loc[t].n < max
    /\ p < NUM_PRIORITIES
    /\ loc' = [loc EXCEPT ![t].item = ProcessingEvent(KeyOf(loc[t].n), p)]
    /\ Goto(t, "push_seq")
    /\ UNCHANGED <<qvars, calls, wvars, pvars, prodPriority, accepted, returned>>

\* event_copy.sequence_id = sequence_counter_.fetch_add(1)
PushSeq(t) ==
    /\ pc[t] = "push_seq"
    /\ loc' = [loc EXCEPT ![t].item.sequence_id = sequence_counter_]
    /\ sequence_counter_' = SequenceAfter(sequence_counter_)
    /\ Goto(t, "tp_load_head")
    /\ UNCHANGED <<queues_, total_pushed_, total_popped_, drops_by_priority_,
                   calls, wvars, pvars, prodPriority, accepted, returned>>

\* head = head_.load(relaxed)
TpLoadHead(t) ==
    /\ pc[t] = "tp_load_head"
    /\ loc' = [loc EXCEPT ![t].index = PushSlot(queues_[PushPriority(t)])]
    /\ Goto(t, "tp_load_tail")
    /\ UNCHANGED <<qvars, calls, wvars, pvars, prodPriority, accepted, returned>>

\* if (next_head == tail_.load(acquire)) return false
TpLoadTail(t) ==
    /\ pc[t] = "tp_load_tail"
    /\ IF IsFullAt(loc[t].index, queues_[PushPriority(t)].tail_)
       THEN /\ Goto(t, "push_drop")
            /\ accepted' = accepted
       ELSE /\ Goto(t, "tp_write_key")
            /\ accepted' = Append(accepted, loc[t].item)
    /\ UNCHANGED <<qvars, calls, wvars, pvars, loc, prodPriority, returned>>

\* slots_[head].data = item, first part: key_event and priority
TpWriteKey(t) ==
    /\ pc[t] = "tp_write_key"
    /\ queues_' = [queues_ EXCEPT
            ![PushPriority(t)].slots_[loc[t].index].data.key_event = loc[t].item.key_event,
            ![PushPriority(t)].slots_[loc[t].index].data.priority = loc[t].item.priority]
    /\ Goto(t, "tp_write_seq")
    /\ UNCHANGED <<total_pushed_, total_popped_, drops_by_priority_, sequence_counter_,
                   calls, wvars, pvars, loc, prodPriority, accepted, returned>>

\* slots_[head].data = item, second part: sequence_id
TpWriteSeq(t) ==
    /\ pc[t] = "tp_write_seq"
    /\ queues_' = [queues_ EXCEPT
            ![PushPriority(t)].slots_[loc[t].index].data.sequence_id = loc[t].item.sequence_id]
    /\ Goto(t, "tp_ready")
    /\ UNCHANGED <<total_pushed_, total_popped_, drops_by_priority_, sequence_counter_,
                   calls, wvars, pvars, loc, prodPriority, accepted, returned>>

\* slots_[head].ready.store(true, release)
TpReady(t) ==
    /\ pc[t] = "tp_ready"
    /\ queues_' = [queues_ EXCEPT ![PushPriority(t)].slots_[loc[t].index].ready = TRUE]
    /\ Goto(t, "tp_store_head")
    /\ UNCHANGED <<total_pushed_, total_popped_, drops_by_priority_, sequence_counter_,
                   calls, wvars, pvars, loc, prodPriority, accepted, returned>>

\* head_.store(next_head, release); return true
TpStoreHead(t) ==
    /\ pc[t] = "tp_store_head"
    /\ queues_' = [queues_ EXCEPT ![PushPriority(t)].head_ = NextIndex(loc[t].index)]
    /\ Goto(t, "push_count")
    /\ UNCHANGED <<total_pushed_, total_popped_, drops_by_priority_, sequence_counter_,
                   calls, wvars, pvars, loc, prodPriority, accepted, returned>>

\* total_pushed_.fetch_add(1); return true
PushCount(t) ==
    /\ pc[t] = "push_count"
    /\ total_pushed_' = PushedAfter(TRUE)
    /\ Return(t)
    /\ UNCHANGED <<queues_, total_popped_, drops_by_priority_, sequence_counter_,
                   calls, wvars, pvars, prodPriority, accepted, returned>>

\* drops_by_priority_[priority_index].fetch_add(1)
PushDrop(t) ==
    /\ pc[t] = "push_drop"
    /\ total_pushed_' = PushedAfter(FALSE)
    /\ drops_by_priority_' = [drops_by_priority_ EXCEPT ![PushPriority(t)] = @ + 1]
    /\ Goto(t, "push_log")
    /\ UNCHANGED <<queues_, total_popped_, sequence_counter_,
                   calls, wvars, pvars, loc, prodPriority, accepted, returned>>

\* Logger::mutex_ is held by the thread that is inside Logger::Log.
LoggerFree == \A t \in DOMAIN pc : pc[t] # "log_hold"

\* LOG_WARNING("Event queue full ..."); return false.  Logger::Log passes
\* WARNING at the default level, takes Logger::mutex_ (std::lock_guard),
\* writes the line and releases the mutex.
PushLog(t) ==
    /\ pc[t] = "push_log"
    /\ LoggerFree
    /\ Return(t)
    /\ UNCHANGED <<qvars, calls, wvars, pvars, prodPriority, accepted, returned>>

\* Another thread of the process logs a line: it takes Logger::mutex_ ...
LogAcquire(t) ==
    /\ pc[t] = "idle"
    /\ LoggerFree
    /\ Goto(t, "log_hold")
    /\ UNCHANGED <<qvars, calls, wvars, pvars, loc, prodPriority, accepted, returned>>

\* ... and releases it after writing the line to std::cout and the file.
LogRelease(t) ==
    /\ pc[t] = "log_hold"
    /\ Goto(t, "idle")
    /\ UNCHANGED <<qvars, calls, wvars, pvars, loc, prodPriority, accepted, returned>>

\* pop(event): priority = NUM_PRIORITIES - 1
PopCall(t, max) ==
    /\ pc[t] = "idle"
    /\ loc[t].n < max
    /\ loc' = [loc EXCEPT ![t].scan = 1, ![t].item = Blank]
    /\ Goto(t, "pp_load_tail")
    /\ UNCHANGED <<qvars, calls, wvars, pvars, prodPriority, accepted, returned>>

\* tail = tail_.load(relaxed)
PpLoadTail(t) ==
    /\ pc[t] = "pp_load_tail"
    /\ loc' = [loc EXCEPT ![t].index = PopSlot(queues_[PopPriority(t)])]
    /\ Goto(t, "pp_load_ready")
    /\ UNCHANGED <<qvars, calls, wvars, pvars, prodPriority, accepted, returned>>

\* if (!slots_[tail].ready.load(acquire)) return false: pop() goes on to the
\* next priority, and returns false after the last one.
PpLoadReady(t) ==
    /\ pc[t] = "pp_load_ready"
    /\ IF queues_[PopPriority(t)].slots_[loc[t].index].ready
       THEN /\ Goto(t, "pp_read_key")
            /\ loc' = loc
       ELSE IF loc[t].scan < NUM_PRIORITIES
            THEN /\ Goto(t, "pp_load_tail")
                 /\ loc' = [loc EXCEPT ![t].scan = @ + 1]
            ELSE Return(t)
    /\ UNCHANGED <<qvars, calls, wvars, pvars, prodPriority, accepted, returned>>

\* item = std::move(slots_[tail].data), first part: key_event and priority
PpReadKey(t) ==
    /\ pc[t] = "pp_read_key"
    /\ LET data == queues_[PopPriority(t)].slots_[loc[t].index].data
       IN loc' = [loc EXCEPT ![t].item.key_event = data.key_event,
                             ![t].item.priority = data.priority]
    /\ Goto(t, "pp_read_seq")
    /\ UNCHANGED <<qvars, calls, wvars, pvars, prodPriority, accepted, returned>>

\* item = std::move(slots_[tail].data), second part: sequence_id
PpReadSeq(t) ==
    /\ pc[t] = "pp_read_seq"
    /\ LET data == queues_[PopPriority(t)].slots_[loc[t].index].data
       IN loc' = [loc EXCEPT ![t].item.sequence_id = data.sequence_id]
    /\ Goto(t, "pp_clear")
    /\ UNCHANGED <<qvars, calls, wvars, pvars, prodPriority, accepted, returned>>

\* slots_[tail].ready.store(false, release)
PpClear(t) ==
    /\ pc[t] = "pp_clear"
    /\ queues_' = [queues_ EXCEPT ![PopPriority(t)].slots_[loc[t].index].ready = FALSE]
    /\ Goto(t, "pp_store_tail")
    /\ UNCHANGED <<total_pushed_, total_popped_, drops_by_priority_, sequence_counter_,
                   calls, wvars, pvars, loc, prodPriority, accepted, returned>>

\* tail_.store((tail + 1) & (Capacity - 1), release); return true
PpStoreTail(t) ==
    /\ pc[t] = "pp_store_tail"
    /\ queues_' = [queues_ EXCEPT ![PopPriority(t)].tail_ = NextIndex(loc[t].index)]
    /\ Goto(t, "pop_count")
    /\ UNCHANGED <<total_pushed_, total_popped_, drops_by_priority_, sequence_counter_,
                   calls, wvars, pvars, loc, prodPriority, accepted, returned>>

\* total_popped_.fetch_add(1); return true
PopCount(t) ==
    /\ pc[t] = "pop_count"
    /\ total_popped_' = PoppedAfter
    /\ returned' = Append(returned, [by |-> t, event |-> loc[t].item])
    /\ Return(t)
    /\ UNCHANGED <<queues_, total_pushed_, drops_by_priority_, sequence_counter_,
                   calls, wvars, pvars, prodPriority, accepted>>

ProducerStep(t, max) ==
    \/ PushCall(t, prodPriority, max)
    \/ PushSeq(t)
    \/ TpLoadHead(t)
    \/ TpLoadTail(t)
    \/ TpWriteKey(t)
    \/ TpWriteSeq(t)
    \/ TpReady(t)
    \/ TpStoreHead(t)
    \/ PushCount(t)
    \/ PushDrop(t)
    \/ PushLog(t)

ConsumerStep(t, max) ==
    \/ PopCall(t, max)
    \/ PpLoadTail(t)
    \/ PpLoadReady(t)
    \/ PpReadKey(t)
    \/ PpReadSeq(t)
    \/ PpClear(t)
    \/ PpStoreTail(t)
    \/ PopCount(t)

InitConc ==
    /\ QueueInit
    /\ calls = <<>>
    /\ ThreadsIdle
    /\ prodPriority \in Priorities
    /\ NoWorkers
    /\ NoPool

\* One producer thread and one consumer thread (the discipline the ring is
\* written for, and test_event_queue_thread_safety).
NextSPSC == ProducerStep(Producer, MaxPushes) \/ ConsumerStep("c1", MaxPops)
SpecSPSC == InitConc /\ [][NextSPSC]_vars

\* One producer thread and two consumer threads (EventProcessor-1 and
\* EventProcessor-2 of the pool).
NextSPMC ==
    \/ ProducerStep(Producer, MaxPushesMC)
    \/ \E t \in Consumers : ConsumerStep(t, MaxPopsMC)
SpecSPMC == InitConc /\ [][NextSPMC]_vars

\* get_stats(): stats.current_sizes[i] = queues_[i].size(), for the ring in
\* use.  size(): head = head_.load(acquire) ...
SizeLoadHead(t) ==
    /\ pc[t] = "idle"
    /\ loc' = [loc EXCEPT ![t].index = queues_[prodPriority].head_, ![t].n = 0]
    /\ Goto(t, "sz_load_tail")
    /\ UNCHANGED <<qvars, calls, wvars, pvars, prodPriority, accepted, returned>>

\* ... tail = tail_.load(acquire); return (head - tail) & (Capacity - 1).
\* The value returned is kept in n.
SizeLoadTail(t) ==
    /\ pc[t] = "sz_load_tail"
    /\ loc' = [loc EXCEPT ![t].n = SizeOf(loc[t].index, queues_[prodPriority].tail_)]
    /\ Goto(t, "idle")
    /\ UNCHANGED <<qvars, calls, wvars, pvars, prodPriority, accepted, returned>>

\* One producer, one consumer, and a thread that reads the ring's size while
\* they run.
NextStats ==
    \/ ProducerStep(Producer, MaxPushesMC)
    \/ ConsumerStep("c1", MaxPopsMC)
    \/ \E t \in StatThreads : SizeLoadHead(t)
    \/ \E t \in StatThreads : SizeLoadTail(t)
SpecStats == InitConc /\ [][NextStats]_vars

\* The same threads, and a thread that logs.
NextLogging ==
    \/ ProducerStep(Producer, MaxPushesMC)
    \/ \E t \in Consumers : ConsumerStep(t, MaxPopsMC)
    \/ \E t \in LogThreads : LogAcquire(t)
    \/ \E t \in LogThreads : LogRelease(t)
SpecLogging == InitConc /\ [][NextLogging]_vars

(***************************************************************************)
(* ThreadWorker: the member functions, as changes of the object, and the   *)
(* worker's thread in run().                                               *)
(***************************************************************************)
Returned(wr, op, ret) ==
    [wr EXCEPT !.call = "idle", !.hist = Append(@, [op |-> op, ret |-> ret])]

\* start(), up to the creation of the thread:
\*   if (is_running_.load()) return false;  should_stop_.store(false);
start_call(wr) ==
    IF wr.is_running_
    THEN Returned(wr, "start", FALSE)
    ELSE [wr EXCEPT !.should_stop_ = FALSE, !.call = "start_spawn"]

\* thread_ = std::thread(&ThreadWorker::run, this): the thread exists and has
\* not run yet.
start_spawned(wr) ==
    [wr EXCEPT !.thread = "entry", !.joinable = TRUE, !.call = "start_wait"]

\* The value start() returns once its wait for is_running_ is over (by
\* is_running_ being set, or by the 100 ms timeout): is_running_.load().
StartResultAlways(wr) == TRUE
StartResult(wr) == wr.is_running_

\* stop(): if (!is_running_.load()) return;  should_stop_.store(true);
StopForgotten(wr) == wr
StopUnconditional(wr) == [wr EXCEPT !.should_stop_ = TRUE]
StopClearsRunning(wr) ==
    IF wr.is_running_ THEN [wr EXCEPT !.should_stop_ = TRUE, !.is_running_ = FALSE] ELSE wr
StopRequested(wr) ==
    IF wr.is_running_ THEN [wr EXCEPT !.should_stop_ = TRUE] ELSE wr
stop_call(wr) == Returned(StopRequested(wr), "stop", TRUE)

\* join(): if (thread_.joinable()) thread_.join();
JoinWithoutWaiting(wr) == Returned(wr, "join", TRUE)
join_call(wr) ==
    IF wr.joinable
    THEN [wr EXCEPT !.call = "join_wait"]
    ELSE Returned(wr, "join", TRUE)

\* thread_.join() returns once the thread has left run().
Joined(wr) == [wr EXCEPT !.joinable = FALSE, !.thread = "none"]

\* ~ThreadWorker(): if (is_running_.load()) { stop(); join(); }
dtor_call(wr) ==
    IF wr.is_running_
    THEN [wr EXCEPT !.call = "dtor_stop"]
    ELSE [wr EXCEPT !.call = "dtor_members"]

\* execute_work(): true for the worker types that always have work.
ExecuteWork(type) == type \in {"HEALTH_MONITOR", "CONFIG_WATCHER"}

\* What the thread does on leaving the loop of run(): is_running_.store(false)
RunExitKeepsRunning(wr) == [wr EXCEPT !.thread = "done"]
RunExit(wr) == [wr EXCEPT !.is_running_ = FALSE, !.thread = "done"]

LastOf(seq) == seq[Len(seq)]

SetWorker(w, wr) == worker' = [worker EXCEPT ![w] = wr]

\* The process is alive, and the step leaves the queue alone.
Alive == fault = "none"
QueueUntouched == UNCHANGED <<qvars, calls, tvars>>

\* The pool has seen fewer than MaxStartFailures start() calls fail.  (A
\* worker driven directly by its owner is not limited.)
StartMayFail(w) == \A c \in PoolCallers : caller[c].failed < MaxStartFailures

\* start(): the thread is created; or std::thread's constructor throws
\* std::system_error, which start() catches; or thread_ still holds a
\* joinable thread and the move assignment calls std::terminate.
StartSpawn(w) ==
    /\ Alive
    /\ worker[w].call = "start_spawn"
    /\ \/ /\ ~worker[w].joinable
          /\ SetWorker(w, start_spawned(worker[w]))
          /\ fault' = fault
       \/ /\ ~worker[w].joinable
          /\ StartMayFail(w)
          /\ SetWorker(w, Returned(worker[w], "start", FALSE))
          /\ fault' = fault
       \/ /\ worker[w].joinable
          /\ fault' = "terminate"
          /\ worker' = worker
    /\ QueueUntouched
    /\ UNCHANGED pvars

\* start(): the wait is over, by is_running_ being set or by the 100 ms
\* timeout; return is_running_.load()
StartReturn(w) ==
    /\ Alive
    /\ worker[w].call = "start_wait"
    /\ worker[w].is_running_ \/ StartMayFail(w)
    /\ SetWorker(w, Returned(worker[w], "start", StartResult(worker[w])))
    /\ QueueUntouched
    /\ UNCHANGED <<fault, pvars>>

\* join(): thread_.join() returns
JoinWait(w) ==
    /\ Alive
    /\ worker[w].call = "join_wait"
    /\ worker[w].thread = "done"
    /\ SetWorker(w, Returned(Joined(worker[w]), "join", TRUE))
    /\ QueueUntouched
    /\ UNCHANGED <<fault, pvars>>

\* ~ThreadWorker(): stop(), then join() up to thread_.join()
DtorStop(w) ==
    /\ Alive
    /\ worker[w].call = "dtor_stop"
    /\ SetWorker(w, [StopRequested(worker[w]) EXCEPT
            !.call = IF worker[w].joinable THEN "dtor_join" ELSE "dtor_members"])
    /\ QueueUntouched
    /\ UNCHANGED <<fault, pvars>>

\* ~ThreadWorker(): thread_.join() returns
DtorJoin(w) ==
    /\ Alive
    /\ worker[w].call = "dtor_join"
    /\ worker[w].thread = "done"
    /\ SetWorker(w, [Joined(worker[w]) EXCEPT !.call = "dtor_members"])
    /\ QueueUntouched
    /\ UNCHANGED <<fault, pvars>>

\* ~ThreadWorker(): the members are destroyed; ~thread() on a joinable thread
\* calls std::terminate.
DtorMembers(w) ==
    /\ Alive
    /\ worker[w].call = "dtor_members"
    /\ IF worker[w].joinable
       THEN /\ fault' = "terminate"
            /\ worker' = worker
       ELSE /\ SetWorker(w, NoWorker)
            /\ fault' = fault
    /\ QueueUntouched
    /\ UNCHANGED pvars

\* run(): is_running_.store(true)
RunEntry(w) ==
    /\ Alive
    /\ worker[w].thread = "entry"
    /\ SetWorker(w, [worker[w] EXCEPT !.is_running_ = TRUE, !.thread = "check"])
    /\ QueueUntouched
    /\ UNCHANGED <<fault, pvars>>

\* The units of work the workers in S have done between them.
RECURSIVE TasksProcessed(_)
TasksProcessed(S) ==
    IF S = {} THEN 0
    ELSE LET w == CHOOSE v \in S : TRUE
         IN worker[w].tasks_processed_ + TasksProcessed(S \ {w})

\* The units of work that workers have begun and not finished.
InFlight == Cardinality({w \in WorkerIds : worker[w].thread = "work"})

\* run(): while (!should_stop_.load()): the flag is false and execute_work()
\* begins a unit of work.  (When execute_work() has none it returns false, the
\* thread sleeps 10 ms and tests again, which changes nothing.)
RunCheck(w) ==
    /\ Alive
    /\ worker[w].thread = "check"
    /\ ~worker[w].should_stop_
    /\ ExecuteWork(worker[w].type_)
    /\ TasksProcessed(WorkerIds) + InFlight < MaxTasks
    /\ SetWorker(w, [worker[w] EXCEPT !.thread = "work"])
    /\ QueueUntouched
    /\ UNCHANGED <<fault, pvars>>

\* run(): execute_work() returns true: tasks_processed_.fetch_add(1), and the
\* loop tests the flag again.
RunWork(w) ==
    /\ Alive
    /\ worker[w].thread = "work"
    /\ SetWorker(w, [worker[w] EXCEPT !.tasks_processed_ = @ + 1, !.thread = "check"])
    /\ QueueUntouched
    /\ UNCHANGED <<fault, pvars>>

\* run(): execute_work() raises an error.  run() has no handler, so the
\* exception leaves the thread function and std::terminate is called.
RunWorkThrows(w) ==
    /\ Alive
    /\ worker[w].thread = "work"
    /\ SetWorker(w, [worker[w] EXCEPT !.raised = @ + 1])
    /\ fault' = "uncaught"
    /\ QueueUntouched
    /\ UNCHANGED pvars

\* run(): while (!should_stop_.load()) is left, is_running_.store(false), and
\* the thread function returns.  (Between the test and the store the object
\* looks as it did before the test, and should_stop_ is not reset while
\* is_running_ is true, so the two are one step.)
RunLeave(w) ==
    /\ Alive
    /\ worker[w].thread = "check"
    /\ worker[w].should_stop_
    /\ SetWorker(w, RunExit(worker[w]))
    /\ QueueUntouched
    /\ UNCHANGED <<fault, pvars>>

\* The worker's thread takes a step.
ThreadStep(w) == RunEntry(w) \/ RunCheck(w) \/ RunWork(w) \/ RunLeave(w)
\* A call that is in progress on the worker takes a step.
CallProgress(w) ==
    \/ StartSpawn(w) \/ StartReturn(w) \/ JoinWait(w)
    \/ DtorStop(w) \/ DtorJoin(w) \/ DtorMembers(w)

(***************************************************************************)
(* One ThreadWorker driven by its owner: start(), stop() and join() in any *)
(* order, one call at a time, and at last its destruction.                 *)
(***************************************************************************)
TheWorker == CHOOSE w \in WorkerIds : \A v \in WorkerIds : w <= v

OwnerCall(w) ==
    /\ Alive
    /\ worker[w].alive
    /\ worker[w].call = "idle"
    /\ Len(worker[w].hist) < MaxWorkerCalls
    /\ \/ SetWorker(w, start_call(worker[w]))
       \/ SetWorker(w, stop_call(worker[w]))
       \/ SetWorker(w, join_call(worker[w]))
    /\ QueueUntouched
    /\ UNCHANGED <<fault, pvars>>

OwnerDestroys(w) ==
    /\ Alive
    /\ worker[w].alive
    /\ worker[w].call = "idle"
    /\ SetWorker(w, dtor_call(worker[w]))
    /\ QueueUntouched
    /\ UNCHANGED <<fault, pvars>>

InitWorker ==
    /\ QueueInit
    /\ calls = <<>>
    /\ ThreadsIdle
    /\ prodPriority = NORMAL
    /\ fault = "none"
    /\ NoPool
    /\ \E type \in ThreadTypes :
          worker = [w \in WorkerIds |-> IF w = TheWorker THEN NewWorker(type) ELSE NoWorker]

NextWorker ==
    \/ OwnerCall(TheWorker)
    \/ OwnerDestroys(TheWorker)
    \/ StartSpawn(TheWorker)
    \/ StartReturn(TheWorker)
    \/ JoinWait(TheWorker)
    \/ DtorStop(TheWorker)
    \/ DtorJoin(TheWorker)
    \/ DtorMembers(TheWorker)
    \/ RunEntry(TheWorker)
    \/ RunCheck(TheWorker)
    \/ RunWork(TheWorker)
    \/ RunLeave(TheWorker)

SpecWorker == InitWorker /\ [][NextWorker]_vars

\* The same worker when a unit of work may raise an error.
NextWorkerFaulty == NextWorker \/ RunWorkThrows(TheWorker)
SpecWorkerFaulty == InitWorker /\ [][NextWorkerFaulty]_vars

\* The operating system schedules the worker's thread, and a call in progress
\* goes on; the owner need not make further calls.
SpecWorkerFair ==
    /\ SpecWorker
    /\ WF_vars(ThreadStep(TheWorker))
    /\ WF_vars(CallProgress(TheWorker))

(***************************************************************************)
(* MultithreadedProcessor: initialize(), shutdown(), get_stats() and the   *)
(* private helpers they call, one step per access that another thread can  *)
(* see, with the worker threads running alongside.                         *)
(***************************************************************************)
\* create_worker_threads(): the six workers, in the order they are pushed.
WorkerTypeOf(w) ==
    <<"INPUT_MONITOR", "EVENT_PROCESSOR", "EVENT_PROCESSOR",
      "TEXT_INJECTOR", "HEALTH_MONITOR", "CONFIG_WATCHER">>[w]

CreatedWorkers == [w \in WorkerIds |-> NewWorker(WorkerTypeOf(w))]

\* get_stats() takes no lock and changes nothing, so what a call made in a
\* state would report is a function of that state.
\* stats.active_threads: the workers in workers_ whose is_running() is true.
active_threads ==
    Cardinality({i \in 1 .. Len(pool.workers_) : worker[pool.workers_[i]].is_running_})

\* get_stats(): stats.is_healthy
is_healthy == pool.is_running_ /\ active_threads > 0

\* The worker threads that exist and have not been joined.
LiveThreads == {w \in WorkerIds : worker[w].thread # "none"}

\* cleanup(): text_injector_.reset(); template_engine_.reset(); event_queue_.reset()
ComponentsReset(p) ==
    [p EXCEPT !.text_injector_ = "null", !.template_engine_ = "null", !.event_queue_ = "null"]

SetCaller(c, rec) ==
    /\ caller' = [caller EXCEPT ![c] = rec]
    /\ UNCHANGED mvars

\* The call returns: the lock_guard releases mutex_.
PoolReturn(c, p, op, ret, why) ==
    /\ pool' = [p EXCEPT !.mutex_ = "free"]
    /\ SetCaller(c, [NoPoolCall EXCEPT
            !.failed = caller[c].failed,
            !.dtor = caller[c].dtor,
            !.hist = Append(caller[c].hist, [op |-> op, ret |-> ret, why |-> why])])

\* std::lock_guard<std::mutex> lock(mutex_) can be taken.
MutexIgnored(p) == TRUE
MutexFree(p) == p.mutex_ = "free"

PoolIdle(c) ==
    /\ Alive
    /\ caller[c].pc = "idle"
    /\ ~caller[c].dtor
    /\ Len(caller[c].hist) < MaxPoolCalls

\* initialize(): lock; if (is_running_.load()) return true;
InitializeCall(c) ==
    /\ PoolIdle(c)
    /\ MutexFree(pool)
    /\ IF pool.is_running_
       THEN PoolReturn(c, pool, "initialize", TRUE, "running")
       ELSE /\ pool' = [pool EXCEPT !.mutex_ = c]
            /\ SetCaller(c, [caller[c] EXCEPT !.pc = "init_engine"])
    /\ QueueUntouched
    /\ UNCHANGED wvars

\* What a component's initialize() can do: return true, return false, throw.
\* On a null handle the call is undefined: the process dies or the call
\* returns either value.
ComponentOutcomes(handle) ==
    IF handle = "live" THEN {"true", "false", "throw"} ELSE {"true", "false", "crash"}

\* initialize(): a component's initialize() has had the given outcome; `then`
\* is where initialize() goes on when it returned true.
InitComponent(c, outcome, then, why) ==
    CASE outcome = "true" ->
            /\ SetCaller(c, [caller[c] EXCEPT !.pc = then])
            /\ UNCHANGED <<pool, fault>>
      [] outcome = "false" ->
            /\ PoolReturn(c, pool, "initialize", FALSE, why)
            /\ UNCHANGED fault
      [] outcome = "throw" ->
            /\ SetCaller(c, [caller[c] EXCEPT !.pc = "clear", !.next = "catch"])
            /\ UNCHANGED <<pool, fault>>
      [] outcome = "crash" ->
            /\ fault' = "null_deref"
            /\ UNCHANGED <<pool, caller, mvars>>

\* initialize(): if (!template_engine_->initialize()) return false;
InitEngine(c) ==
    /\ Alive
    /\ caller[c].pc = "init_engine"
    /\ \E outcome \in ComponentOutcomes(pool.template_engine_) :
          InitComponent(c, outcome, "init_injector", "component")
    /\ QueueUntouched
    /\ UNCHANGED worker

\* initialize(): if (!text_injector_->initialize()) return false;
\* then create_worker_threads() begins with workers_.clear().
InitInjector(c) ==
    /\ Alive
    /\ caller[c].pc = "init_injector"
    /\ \E outcome \in ComponentOutcomes(pool.text_injector_) :
          IF outcome = "true"
          THEN /\ SetCaller(c, [caller[c] EXCEPT !.pc = "clear", !.next = "create"])
               /\ UNCHANGED <<pool, fault>>
          ELSE InitComponent(c, outcome, "clear", "component")
    /\ QueueUntouched
    /\ UNCHANGED worker

\* workers_.clear(): the next worker's destructor is entered; or none is left
\* and the caller goes on.
ClearNext(c) ==
    /\ Alive
    /\ caller[c].pc = "clear"
    /\ IF pool.workers_ # <<>>
       THEN /\ worker[Head(pool.workers_)].call = "idle"
            /\ SetWorker(Head(pool.workers_), dtor_call(worker[Head(pool.workers_)]))
            /\ SetCaller(c, [caller[c] EXCEPT !.pc = "clear_wait"])
       ELSE /\ SetCaller(c, [caller[c] EXCEPT !.pc = caller[c].next, !.next = "idle"])
            /\ UNCHANGED worker
    /\ QueueUntouched
    /\ UNCHANGED <<pool, fault>>

\* workers_.clear(): the worker's destructor has returned.
ClearDone(c) ==
    /\ Alive
    /\ caller[c].pc = "clear_wait"
    /\ ~worker[Head(pool.workers_)].alive
    /\ pool' = [pool EXCEPT !.workers_ = Tail(@)]
    /\ SetCaller(c, [caller[c] EXCEPT !.pc = "clear"])
    /\ QueueUntouched
    /\ UNCHANGED wvars

\* create_worker_threads(): the six push_back
CreateWorkers(c) ==
    /\ Alive
    /\ caller[c].pc = "create"
    /\ worker' = CreatedWorkers
    /\ pool' = [pool EXCEPT !.workers_ = [i \in 1 .. NumWorkers |-> i]]
    /\ SetCaller(c, [caller[c] EXCEPT !.pc = "start", !.i = 1, !.all_started = TRUE])
    /\ QueueUntouched
    /\ UNCHANGED fault

\* start_worker_threads(): worker->start() is called on the next worker; or
\* the loop is over, and initialize() returns false if a start failed and
\* sets is_running_ and returns true if none did.
StartNext(c) ==
    /\ Alive
    /\ caller[c].pc = "start"
    /\ IF caller[c].i <= Len(pool.workers_)
       THEN /\ SetWorker(pool.workers_[caller[c].i], start_call(worker[pool.workers_[caller[c].i]]))
            /\ SetCaller(c, [caller[c] EXCEPT !.pc = "start_wait"])
            /\ UNCHANGED pool
       ELSE /\ IF caller[c].all_started
               THEN PoolReturn(c, [pool EXCEPT !.is_running_ = TRUE], "initialize", TRUE, "started")
               ELSE PoolReturn(c, pool, "initialize", FALSE, "start")
            /\ UNCHANGED worker
    /\ QueueUntouched
    /\ UNCHANGED fault

\* start_worker_threads(): if (!worker->start()) all_started = false;
AllStartedLast(all_started, ret) == ret
AllStartedAfter(all_started, ret) == IF ~ret THEN FALSE ELSE all_started

StartDone(c) ==
    /\ Alive
    /\ caller[c].pc = "start_wait"
    /\ worker[pool.workers_[caller[c].i]].call = "idle"
    /\ SetCaller(c, [caller[c] EXCEPT
            !.pc = "start", !.i = @ + 1,
            !.all_started = AllStartedAfter(@, LastOf(worker[pool.workers_[caller[c].i]].hist).ret),
            !.failed = IF LastOf(worker[pool.workers_[caller[c].i]].hist).ret THEN @ ELSE @ + 1])
    /\ QueueUntouched
    /\ UNCHANGED <<pool, wvars>>

\* shutdown(): is_running_.store(false)
MarkStoppedForgotten(p) == p
MarkStopped(p) == [p EXCEPT !.is_running_ = FALSE]

\* shutdown(): lock; if (!is_running_.load()) return; is_running_.store(false);
ShutdownCall(c) ==
    /\ PoolIdle(c)
    /\ MutexFree(pool)
    /\ IF ~pool.is_running_
       THEN PoolReturn(c, pool, "shutdown", TRUE, "not running")
       ELSE /\ pool' = [MarkStopped(pool) EXCEPT !.mutex_ = c]
            /\ SetCaller(c, [caller[c] EXCEPT !.pc = "stop", !.i = 1])
    /\ QueueUntouched
    /\ UNCHANGED wvars

\* stop_worker_threads(): worker->stop() on the next worker
StopNext(c) ==
    /\ Alive
    /\ caller[c].pc = "stop"
    /\ IF caller[c].i <= Len(pool.workers_)
       THEN /\ SetWorker(pool.workers_[caller[c].i], stop_call(worker[pool.workers_[caller[c].i]]))
            /\ SetCaller(c, [caller[c] EXCEPT !.i = @ + 1])
       ELSE /\ SetCaller(c, [caller[c] EXCEPT !.pc = "join", !.i = 1])
            /\ UNCHANGED worker
    /\ QueueUntouched
    /\ UNCHANGED <<pool, fault>>

\* join_worker_threads(): worker->join() is called on the next worker; or the
\* loop is over and cleanup() begins with workers_.clear().
JoinNext(c) ==
    /\ Alive
    /\ caller[c].pc = "join"
    /\ IF caller[c].i <= Len(pool.workers_)
       THEN /\ SetWorker(pool.workers_[caller[c].i], join_call(worker[pool.workers_[caller[c].i]]))
            /\ SetCaller(c, [caller[c] EXCEPT !.pc = "join_wait"])
       ELSE /\ SetCaller(c, [caller[c] EXCEPT !.pc = "clear", !.i = 1, !.next = "shutdown"])
            /\ UNCHANGED worker
    /\ QueueUntouched
    /\ UNCHANGED <<pool, fault>>

\* join_worker_threads(): worker->join() has returned
JoinDone(c) ==
    /\ Alive
    /\ caller[c].pc = "join_wait"
    /\ worker[pool.workers_[caller[c].i]].call = "idle"
    /\ SetCaller(c, [caller[c] EXCEPT !.pc = "join", !.i = @ + 1])
    /\ QueueUntouched
    /\ UNCHANGED <<pool, wvars>>

\* cleanup(), after workers_.clear(): the components are shut down and
\* released; then shutdown() returns, or initialize()'s catch returns false.
CleanupComponents(c) ==
    /\ Alive
    /\ caller[c].pc \in {"shutdown", "catch"}
    /\ IF caller[c].pc = "shutdown"
       THEN PoolReturn(c, ComponentsReset(pool), "shutdown", TRUE, "stopped")
       ELSE PoolReturn(c, ComponentsReset(pool), "initialize", FALSE, "exception")
    /\ QueueUntouched
    /\ UNCHANGED wvars

\* ~MultithreadedProcessor(): shutdown(), entered as ShutdownCall enters it.
DestructorCall(c) ==
    /\ PoolIdle(c)
    /\ MutexFree(pool)
    /\ IF ~pool.is_running_
       THEN /\ pool' = pool
            /\ SetCaller(c, [caller[c] EXCEPT
                    !.dtor = TRUE,
                    !.hist = Append(@, [op |-> "shutdown", ret |-> TRUE, why |-> "not running"])])
       ELSE /\ pool' = [MarkStopped(pool) EXCEPT !.mutex_ = c]
            /\ SetCaller(c, [caller[c] EXCEPT !.pc = "stop", !.i = 1, !.dtor = TRUE])
    /\ QueueUntouched
    /\ UNCHANGED wvars

\* ~MultithreadedProcessor(), after shutdown() has returned: the members are
\* destroyed, workers_ by destroying each worker it still holds.
DestroyMembers(c) ==
    /\ Alive
    /\ caller[c].dtor
    /\ caller[c].pc = "idle"
    /\ SetCaller(c, [caller[c] EXCEPT !.pc = "clear", !.next = "dtor_handles"])
    /\ QueueUntouched
    /\ UNCHANGED <<pool, wvars>>

\* ~MultithreadedProcessor(): the three unique_ptr members are destroyed, and
\* the object is gone.
DestroyHandles(c) ==
    /\ Alive
    /\ caller[c].pc = "dtor_handles"
    /\ pool' = ComponentsReset(pool)
    /\ SetCaller(c, [caller[c] EXCEPT !.pc = "gone"])
    /\ QueueUntouched
    /\ UNCHANGED wvars

PoolCall(c) == InitializeCall(c) \/ ShutdownCall(c)

\* A pool call that is in progress takes a step.
PoolProgress(c) ==
    \/ InitEngine(c) \/ InitInjector(c) \/ ClearNext(c) \/ ClearDone(c)
    \/ CreateWorkers(c) \/ StartNext(c) \/ StartDone(c)
    \/ StopNext(c) \/ JoinNext(c) \/ JoinDone(c) \/ CleanupComponents(c)

InitPool ==
    /\ QueueInit
    /\ calls = <<>>
    /\ ThreadsIdle
    /\ prodPriority = NORMAL
    /\ NoWorkers
    /\ NoPool

NextPool ==
    \/ InitializeCall("main")
    \/ ShutdownCall("main")
    \/ InitEngine("main")
    \/ InitInjector("main")
    \/ ClearNext("main")
    \/ ClearDone("main")
    \/ CreateWorkers("main")
    \/ StartNext("main")
    \/ StartDone("main")
    \/ StopNext("main")
    \/ JoinNext("main")
    \/ JoinDone("main")
    \/ CleanupComponents("main")
    \/ \E w \in WorkerIds :
          \/ StartSpawn(w) \/ StartReturn(w) \/ JoinWait(w)
          \/ DtorStop(w) \/ DtorJoin(w) \/ DtorMembers(w)
          \/ RunEntry(w) \/ RunCheck(w) \/ RunWork(w) \/ RunLeave(w)

SpecPool == InitPool /\ [][NextPool]_vars

\* Two threads use the one pool: "main" calls initialize() and "other" calls
\* shutdown(), at any moments, MaxSerialCalls calls between them.
SerialCallsLeft == Len(caller["main"].hist) + Len(caller["other"].hist) < MaxSerialCalls
SerialInitialize == SerialCallsLeft /\ InitializeCall("main")
SerialShutdown == SerialCallsLeft /\ ShutdownCall("other")

NextSerial ==
    \/ SerialInitialize
    \/ InitEngine("main")
    \/ InitInjector("main")
    \/ CreateWorkers("main")
    \/ StartNext("main")
    \/ StartDone("main")
    \/ SerialShutdown
    \/ StopNext("other")
    \/ JoinNext("other")
    \/ JoinDone("other")
    \/ \E c \in PoolCallers : ClearNext(c)
    \/ \E c \in PoolCallers : ClearDone(c)
    \/ \E c \in PoolCallers : CleanupComponents(c)
    \/ \E w \in WorkerIds :
          \/ StartSpawn(w) \/ StartReturn(w) \/ JoinWait(w)
          \/ DtorStop(w) \/ DtorJoin(w) \/ DtorMembers(w)
          \/ RunEntry(w) \/ RunCheck(w) \/ RunWork(w) \/ RunLeave(w)

SpecSerial == InitPool /\ [][NextSerial]_vars

\* The pool is used as above and then destroyed.
NextDestroy ==
    \/ InitializeCall("main")
    \/ ShutdownCall("main")
    \/ DestructorCall("main")
    \/ DestroyMembers("main")
    \/ DestroyHandles("main")
    \/ InitEngine("main")
    \/ InitInjector("main")
    \/ ClearNext("main")
    \/ ClearDone("main")
    \/ CreateWorkers("main")
    \/ StartNext("main")
    \/ StartDone("main")
    \/ StopNext("main")
    \/ JoinNext("main")
    \/ JoinDone("main")
    \/ CleanupComponents("main")
    \/ \E w \in WorkerIds :
          \/ StartSpawn(w) \/ StartReturn(w) \/ JoinWait(w)
          \/ DtorStop(w) \/ DtorJoin(w) \/ DtorMembers(w)
          \/ RunEntry(w) \/ RunCheck(w) \/ RunWork(w) \/ RunLeave(w)

SpecDestroy == InitPool /\ [][NextDestroy]_vars

\* The pool as a successful initialize() leaves it: the six workers created
\* and started, each thread in its loop, is_running_ set.
StartedWorker(w) ==
    [NewWorker(WorkerTypeOf(w)) EXCEPT
        !.is_running_ = TRUE, !.joinable = TRUE, !.thread = "check",
        !.hist = <<[op |-> "start", ret |-> TRUE]>>]

InitRunningPool ==
    /\ QueueInit
    /\ calls = <<>>
    /\ ThreadsIdle
    /\ prodPriority = NORMAL
    /\ fault = "none"
    /\ worker = [w \in WorkerIds |-> StartedWorker(w)]
    /\ pool = [NewPool EXCEPT !.is_running_ = TRUE, !.workers_ = [i \in 1 .. NumWorkers |-> i]]
    /\ caller = [c \in PoolCallers |->
            [NoPoolCall EXCEPT
                !.hist = <<[op |-> "initialize", ret |-> TRUE, why |-> "started"]>>]]
    /\ NewMemory

\* The running pool is shut down while its workers work.
NextShutdown ==
    \/ InitializeCall("main")
    \/ ShutdownCall("main")
    \/ StopNext("main")
    \/ JoinNext("main")
    \/ JoinDone("main")
    \/ ClearNext("main")
    \/ ClearDone("main")
    \/ CleanupComponents("main")
    \/ \E w \in WorkerIds :
          \/ JoinWait(w) \/ DtorMembers(w)
          \/ RunCheck(w) \/ RunWork(w) \/ RunLeave(w)

\* The operating system schedules every worker's thread and the thread that
\* is inside shutdown(); every unit of work returns.
SpecShutdownFair ==
    /\ InitRunningPool
    /\ [][NextShutdown]_vars
    /\ WF_vars(PoolProgress("main"))
    /\ \A w \in WorkerIds : WF_vars(ThreadStep(w)) /\ WF_vars(CallProgress(w))

(***************************************************************************)
(* MultithreadedProcessor::get_stats() statement by statement, as a thread *)
(* runs it while another thread is inside initialize() or shutdown().  It  *)
(* takes no lock.                                                          *)
(***************************************************************************)
\* Where get_stats() goes on after the block guarded by the handle at `at`.
StatsAfter(at) ==
    IF at = "gs_begin" /\ pool.event_queue_ = "live" THEN "gs_queue"
    ELSE IF at \in {"gs_begin", "gs_queue"} /\ pool.template_engine_ = "live" THEN "gs_engine"
    ELSE "gs_workers"

\* get_stats(): if (event_queue_) ...
StatsCall(c) ==
    /\ PoolIdle(c)
    /\ SetCaller(c, [caller[c] EXCEPT !.pc = StatsAfter("gs_begin"), !.i = 1])
    /\ QueueUntouched
    /\ UNCHANGED <<pool, wvars>>

\* get_stats(): event_queue_->get_stats(), template_engine_->get_stats();
\* through a handle that has been reset since it was tested the call is
\* undefined: the process dies, or the call returns.
StatsDeref(c) ==
    /\ Alive
    /\ caller[c].pc \in {"gs_queue", "gs_engine"}
    /\ LET handle == IF caller[c].pc = "gs_queue"
                     THEN pool.event_queue_ ELSE pool.template_engine_
       IN \/ /\ SetCaller(c, [caller[c] EXCEPT !.pc = StatsAfter(caller[c].pc)])
             /\ fault' = fault
          \/ /\ handle = "null"
             /\ fault' = "null_deref"
             /\ UNCHANGED <<caller, mvars>>
    /\ QueueUntouched
    /\ UNCHANGED <<pool, worker>>

\* get_stats(): for (const auto& worker : workers_) worker->is_running();
\* on a worker that has been destroyed the call is undefined.  After the
\* loop get_stats() returns.
StatsWorker(c) ==
    /\ Alive
    /\ caller[c].pc = "gs_workers"
    /\ IF caller[c].i <= Len(pool.workers_)
       THEN \/ /\ SetCaller(c, [caller[c] EXCEPT !.i = @ + 1])
               /\ fault' = fault
            \/ /\ ~worker[pool.workers_[caller[c].i]].alive
               /\ fault' = "use_after_free"
               /\ UNCHANGED <<caller, mvars>>
       ELSE /\ SetCaller(c, [NoPoolCall EXCEPT
                    !.hist = Append(caller[c].hist,
                                    [op |-> "get_stats", ret |-> TRUE, why |-> "read"])])
            /\ fault' = fault
    /\ QueueUntouched
    /\ UNCHANGED <<pool, worker>>

\* The running pool is shut down by one thread while another reads its
\* statistics.
NextReport ==
    \/ InitializeCall("main")
    \/ ShutdownCall("main")
    \/ StopNext("main")
    \/ JoinNext("main")
    \/ JoinDone("main")
    \/ ClearNext("main")
    \/ ClearDone("main")
    \/ CleanupComponents("main")
    \/ StatsCall("other")
    \/ StatsDeref("other")
    \/ StatsWorker("other")
    \/ \E w \in WorkerIds :
          \/ JoinWait(w) \/ DtorMembers(w)
          \/ RunCheck(w) \/ RunWork(w) \/ RunLeave(w)

SpecReport == InitRunningPool /\ [][NextReport]_vars

(***************************************************************************)
(* The statistics and health reads, called on a running pool and its       *)
(* queue.                                                                  *)
(***************************************************************************)
\* An atomic after load(): it keeps its value.
AfterExchange(v) == 0
AfterLoad(v) == v

\* What the read returns.  utilization() is total_used / total_capacity;
\* uptime and rates depend on the clock and are left out.
ReadResult(op) ==
    CASE op = "get_stats" ->
            [total_pushed |-> total_pushed_, total_popped |-> total_popped_,
             total_dropped |-> total_dropped, drops_by_priority |-> drops_by_priority_,
             current_sizes |-> [p \in Priorities |-> size(queues_[p])]]
      [] op = "total_size" -> total_size
      [] op = "is_healthy" -> EventQueue_is_healthy
      [] op = "utilization" -> <<total_size, NUM_PRIORITIES * capacity>>

\* EventQueue::get_stats, total_size, is_healthy, utilization: head_ and
\* tail_ of every ring are loaded, and by get_stats (which is_healthy calls)
\* the counters.
QueueRead(op) ==
    /\ Len(calls) < MaxCalls
    /\ calls' = Append(calls, CallRec(op, 0, "none", TRUE, ReadResult(op)))
    /\ queues_' = [p \in Priorities |->
                     [queues_[p] EXCEPT !.head_ = AfterLoad(@), !.tail_ = AfterLoad(@)]]
    /\ IF op \in {"get_stats", "is_healthy"}
       THEN /\ total_pushed_' = AfterLoad(total_pushed_)
            /\ total_popped_' = AfterLoad(total_popped_)
            /\ drops_by_priority_' = [p \in Priorities |-> AfterLoad(drops_by_priority_[p])]
       ELSE UNCHANGED <<total_pushed_, total_popped_, drops_by_priority_>>
    /\ UNCHANGED <<sequence_counter_, tvars, wvars, pvars>>

\* ProcessorStats MultithreadedProcessor::get_stats() const: no lock; the
\* queue's statistics if event_queue_ is set, is_running() of every worker,
\* is_running_ of the pool.
PoolGetStats ==
    /\ Len(calls) < MaxCalls
    /\ calls' = Append(calls, CallRec("pool_get_stats", 0, "none", TRUE,
            [queue_size |-> IF pool.event_queue_ = "live" THEN total_size ELSE 0,
             events_dropped |-> IF pool.event_queue_ = "live" THEN total_dropped ELSE 0,
             active_threads |-> active_threads,
             is_healthy |-> is_healthy]))
    /\ IF pool.event_queue_ = "live"
       THEN /\ total_pushed_' = AfterLoad(total_pushed_)
            /\ total_popped_' = AfterLoad(total_popped_)
            /\ drops_by_priority_' = [p \in Priorities |-> AfterLoad(drops_by_priority_[p])]
       ELSE UNCHANGED <<total_pushed_, total_popped_, drops_by_priority_>>
    /\ UNCHANGED <<queues_, sequence_counter_, tvars, wvars, pvars>>

\* One thread pushing, popping and reading the statistics of a running pool.
NextReads ==
    \/ \E p \in Priorities : HealthPush(p)
    \/ HealthPop
    \/ \E op \in {"get_stats", "total_size", "is_healthy", "utilization"} : QueueRead(op)
    \/ PoolGetStats
SpecReads == InitRunningPool /\ [][NextReads]_vars

(***************************************************************************)
(* FixedSizePool::allocate and deallocate, called by several threads       *)
(***************************************************************************)
MemoryUntouched == UNCHANGED <<qvars, calls, tvars, wvars, pool, caller>>
SetHolder(t, rec) == holder' = [holder EXCEPT ![t] = rec]

\* allocate(): std::lock_guard<std::mutex> lock(mutex_).
AllocateCall(t) ==
    /\ holder[t].pc = "idle"
    /\ holder[t].allocations < MaxMemCalls
    /\ fpool.mutex_ = "free"
    /\ fpool' = [fpool EXCEPT !.mutex_ = t]
    /\ SetHolder(t, [holder[t] EXCEPT !.pc = "al_take",
                                      !.allocations = @ + 1])
    /\ MemoryUntouched

\* if (!free_list_) return nullptr;  result = free_list_;
\* free_list_ = *static_cast<void**>(free_list_).  Returning destroys the
\* lock.
FreeListStays(p) == p.free_list_
FreeListAfterPop(p) == p.next[p.free_list_]
AllocateTake(t) ==
    /\ holder[t].pc = "al_take"
    /\ IF fpool.free_list_ = nullptr
       THEN /\ fpool' = [fpool EXCEPT !.mutex_ = "free"]
            /\ SetHolder(t, [holder[t] EXCEPT
                    !.pc = "idle", !.result = nullptr,
                    !.last = [op |-> "allocate", block |-> nullptr]])
       ELSE /\ fpool' = [fpool EXCEPT !.free_list_ = FreeListAfterPop(fpool)]
            /\ SetHolder(t, [holder[t] EXCEPT
                    !.pc = "al_count", !.result = fpool.free_list_])
    /\ MemoryUntouched

\* size_t current = allocated_count_.fetch_add(1) + 1.
AllocateCount(t) ==
    /\ holder[t].pc = "al_count"
    /\ fpool' = [fpool EXCEPT !.allocated_count_ = @ + 1]
    /\ SetHolder(t, [holder[t] EXCEPT !.pc = "al_peak"])
    /\ MemoryUntouched

\* The loop that raises peak_usage_ to current (no other thread writes it:
\* the mutex is held), then return result.  The block is the caller's from
\* here on, and what the caller writes into it (v) overwrites the pointer
\* the pool kept there: the caller leaves it, or writes the block's own
\* address.
AllocatePeak(t) ==
    /\ holder[t].pc = "al_peak"
    /\ \E v \in {fpool.next[holder[t].result], holder[t].result} :
        fpool' = [fpool EXCEPT
            !.peak_usage_ = IF fpool.allocated_count_ > @
                            THEN fpool.allocated_count_ ELSE @,
            !.next[holder[t].result] = v,
            !.mutex_ = "free"]
    /\ SetHolder(t, [holder[t] EXCEPT
            !.pc = "idle",
            !.local_ptrs = @ \cup {holder[t].result},
            !.last = [op |-> "allocate", block |-> holder[t].result]])
    /\ MemoryUntouched

\* deallocate(ptr) on a block the thread holds: if (!ptr) return is not
\* taken.
DeallocateCall(t, b) ==
    /\ holder[t].pc = "idle"
    /\ b \in holder[t].local_ptrs
    /\ SetHolder(t, [holder[t] EXCEPT
            !.pc = "de_lock", !.ptr = b, !.local_ptrs = @ \ {b}])
    /\ UNCHANGED fpool
    /\ MemoryUntouched

\* std::lock_guard<std::mutex> lock(mutex_).
DeallocateLock(t) ==
    /\ holder[t].pc = "de_lock"
    /\ fpool.mutex_ = "free"
    /\ fpool' = [fpool EXCEPT !.mutex_ = t]
    /\ SetHolder(t, [holder[t] EXCEPT !.pc = "de_push"])
    /\ MemoryUntouched

\* *static_cast<void**>(ptr) = free_list_;  free_list_ = ptr.
DeallocatePush(t) ==
    /\ holder[t].pc = "de_push"
    /\ fpool' = [fpool EXCEPT !.next[holder[t].ptr] = fpool.free_list_,
                              !.free_list_ = holder[t].ptr]
    /\ SetHolder(t, [holder[t] EXCEPT !.pc = "de_count"])
    /\ MemoryUntouched

\* allocated_count_.fetch_sub(1), and the lock is destroyed.
DeallocateCount(t) ==
    /\ holder[t].pc = "de_count"
    /\ fpool' = [fpool EXCEPT !.allocated_count_ = @ - 1, !.mutex_ = "free"]
    /\ SetHolder(t, [holder[t] EXCEPT
            !.pc = "idle", !.ptr = nullptr,
            !.last = [op |-> "deallocate", block |-> holder[t].ptr],
            !.freed = @ \cup {holder[t].ptr}])
    /\ MemoryUntouched

NextMemory ==
    \/ \E t \in MemThreads : AllocateCall(t)
    \/ \E t \in MemThreads : AllocateTake(t)
    \/ \E t \in MemThreads : AllocateCount(t)
    \/ \E t \in MemThreads : AllocatePeak(t)
    \/ \E t \in MemThreads : \E b \in Blocks : DeallocateCall(t, b)
    \/ \E t \in MemThreads : DeallocateLock(t)
    \/ \E t \in MemThreads : DeallocatePush(t)
    \/ \E t \in MemThreads : DeallocateCount(t)

SpecMemory == InitSeq /\ [][NextMemory]_vars

(***************************************************************************)
(* What the caller has observed, read off the calls alone.                 *)
(***************************************************************************)
LastCall(c) == c[Len(c)]

\* The events accepted at priority p, and the events popped with priority p,
\* each in call order.
IsAcceptedAt(p, c) == c.op = "push" /\ c.ret /\ c.priority = p
IsPoppedAt(p, c) == c.op = "pop" /\ c.ret /\ c.out.priority = p
Outs(s) == [i \in 1 .. Len(s) |-> s[i].out]
AcceptedAt(p, cs) == Outs(SelectSeq(cs, LAMBDA c : IsAcceptedAt(p, c)))
PoppedAt(p, cs) == Outs(SelectSeq(cs, LAMBDA c : IsPoppedAt(p, c)))
QueuedAt(p, cs) == Len(AcceptedAt(p, cs)) - Len(PoppedAt(p, cs))
IsPrefix(s, t) == Len(s) <= Len(t) /\ \A i \in 1 .. Len(s) : s[i] = t[i]

NumOk(op) == Cardinality({i \in 1 .. Len(calls) : calls[i].op = op /\ calls[i].ret})

\* The step is a completed call of op.
CallStep(op) ==
    /\ Len(calls') = Len(calls) + 1
    /\ LastCall(calls').op = op

(***************************************************************************)
(* C1                                                                      *)
(***************************************************************************)
PushedLowHighCriticalThenPoppedThrice ==
    /\ Len(calls) = 6
    /\ \A i \in 1 .. 3 : calls[i].op = "push"
    /\ <<calls[1].priority, calls[2].priority, calls[3].priority>> = <<LOW, HIGH, CRITICAL>>
    /\ \A i \in 4 .. 6 : calls[i].op = "pop"

\* C1: a successful pop() with no concurrent operation returns an event of
\* the highest priority that has an event queued (no event of a higher
\* priority is queued when it returns one of priority p); and pushing LOW,
\* HIGH, CRITICAL then popping three times returns exactly the CRITICAL, the
\* HIGH and the LOW event, in that order.
C1_PopHighestPriorityFirst ==
    /\ [][(CallStep("pop") /\ LastCall(calls').ret) =>
            \A q \in Priorities :
                q > LastCall(calls').out.priority => QueuedAt(q, calls) = 0]_vars
    /\ [](PushedLowHighCriticalThenPoppedThrice =>
            /\ \A i \in 1 .. 6 : calls[i].ret
            /\ <<calls[4].out, calls[5].out, calls[6].out>>
                 = <<calls[3].out, calls[2].out, calls[1].out>>)

C1_Witness ==
    /\ PushedLowHighCriticalThenPoppedThrice
    /\ <<calls[4].out.priority, calls[5].out.priority, calls[6].out.priority>>
         = <<CRITICAL, HIGH, LOW>>

(***************************************************************************)
(* C2                                                                      *)
(***************************************************************************)
\* C2: at every priority the events returned by pop(), in the order they were
\* returned, are a prefix of the events accepted by push() at that priority,
\* in the order they were accepted: B is never returned before A when A was
\* pushed before B at the same priority.
C2_FifoWithinPriority ==
    \A p \in Priorities : IsPrefix(PoppedAt(p, calls), AcceptedAt(p, calls))

\* A, B, C pushed at NORMAL and popped as A, B, C.
C2_Witness ==
    /\ Len(AcceptedAt(NORMAL, calls)) = 3
    /\ PoppedAt(NORMAL, calls) = AcceptedAt(NORMAL, calls)
    /\ [i \in 1 .. 3 |-> PoppedAt(NORMAL, calls)[i].key_event] = <<"A", "B", "C">>

(***************************************************************************)
(* C5                                                                      *)
(***************************************************************************)
\* C5: a push to a priority whose ring already holds capacity() events
\* returns false, adds exactly 1 to that priority's drop counter and leaves
\* total_pushed, total_popped, the other drop counters and every ring as
\* they were.
C5_DropOnFullRing ==
    [][\A p \in Priorities :
        (CallStep("push") /\ LastCall(calls').priority = p
            /\ QueuedAt(p, calls) = capacity) =>
          /\ ~LastCall(calls').ret
          /\ drops_by_priority_' = [drops_by_priority_ EXCEPT ![p] = @ + 1]
          /\ total_pushed_' = total_pushed_
          /\ total_popped_' = total_popped_
          /\ queues_' = queues_]_vars

C5_Witness ==
    /\ calls # <<>>
    /\ LastCall(calls).op = "push"
    /\ ~LastCall(calls).ret
    /\ QueuedAt(LastCall(calls).priority, calls) = capacity
    /\ drops_by_priority_[LastCall(calls).priority] = 1
    /\ total_pushed_ = capacity

(***************************************************************************)
(* C6                                                                      *)
(***************************************************************************)
\* C6: between calls, total_size() is the number of successful pushes minus
\* the number of successful pops, and total_pushed - total_popped is
\* total_size().
C6_Conservation ==
    /\ total_size = NumOk("push") - NumOk("pop")
    /\ total_pushed_ - total_popped_ = total_size

C6_Witness ==
    /\ NumOk("push") = 3
    /\ NumOk("pop") = 2
    /\ total_size = 1

(***************************************************************************)
(* What the consumers have been handed, against what the producer's        *)
(* try_push accepted.                                                      *)
(***************************************************************************)
ReturnedEvents == [i \in 1 .. Len(returned) |-> returned[i].event]
AcceptedSet == {accepted[i] : i \in 1 .. Len(accepted)}
AllIdle == \A t \in QueueThreads : pc[t] = "idle"
NoSlotReady == \A p \in Priorities, i \in Indices : ~queues_[p].slots_[i].ready

(***************************************************************************)
(* C3                                                                      *)
(***************************************************************************)
\* C3: with one producer and several consumers in pop() concurrently, every
\* accepted event is returned by exactly one successful pop: no event is
\* returned twice, only accepted events are returned, and once the queue is
\* drained the number of returned events is the number of accepted ones.
C3_ExactlyOnceDelivery ==
    /\ \A i, j \in 1 .. Len(returned) :
            i # j => returned[i].event # returned[j].event
    /\ \A i \in 1 .. Len(returned) : returned[i].event \in AcceptedSet
    /\ (AllIdle /\ NoSlotReady) => Len(returned) = Len(accepted)

(***************************************************************************)
(* C4                                                                      *)
(***************************************************************************)
\* C4: with one producer and one consumer on one priority, the events
\* returned by pop() are at every moment a prefix, value for value, of the
\* events try_push accepted; and when the producer is between calls and as
\* many events were returned as were accepted, total_size() is 0.
C4_SpscReturnsPrefixOfAccepted ==
    /\ IsPrefix(ReturnedEvents, accepted)
    /\ (pc[Producer] = "idle" /\ Len(returned) = Len(accepted)) => total_size = 0

\* All MaxPushes pushes were made, one slot was written a second time, and
\* everything accepted was returned.
C4_Witness ==
    /\ loc[Producer].n = MaxPushes
    /\ Len(accepted) > QUEUE_SIZE
    /\ ReturnedEvents = accepted
    /\ pc[Producer] = "idle"
    /\ total_size = 0

(***************************************************************************)
(* C7                                                                      *)
(***************************************************************************)
\* C7: total_pushed >= total_popped in every reachable state, the
\* intermediate states of a push and a pop running concurrently included.
C7_PushedAtLeastPopped == total_pushed_ >= total_popped_

(***************************************************************************)
(* What the pool's caller and the worker's owner have observed.            *)
(***************************************************************************)
PoolHist == caller["main"].hist
PoolCallerIdle == caller["main"].pc = "idle"

\* The k-th completed pool call was a shutdown() that stopped a running pool,
\* and only shutdown() calls have completed since.
StoppedAt(k) ==
    /\ PoolHist[k] = [op |-> "shutdown", ret |-> TRUE, why |-> "stopped"]
    /\ \A j \in k + 1 .. Len(PoolHist) : PoolHist[j].op = "shutdown"

HasShutDown == \E k \in 1 .. Len(PoolHist) : StoppedAt(k)

\* The caller enters shutdown() in this step.
ShutdownStep ==
    /\ PoolCallerIdle
    /\ \/ caller'["main"].pc = "stop"
       \/ /\ Len(caller'["main"].hist) = Len(PoolHist) + 1
          /\ LastOf(caller'["main"].hist).op = "shutdown"

\* C8: if a worker's start() fails during initialize(), initialize() returns
\* false, and once a shutdown() that follows it has returned no worker thread
\* is running and get_stats() reports active_threads = 0.
C8_ShutdownReclaimsPartialStart ==
    ( /\ PoolCallerIdle
      /\ Len(PoolHist) >= 2
      /\ PoolHist[Len(PoolHist) - 1] = [op |-> "initialize", ret |-> FALSE, why |-> "start"]
      /\ PoolHist[Len(PoolHist)].op = "shutdown" )
    => /\ LiveThreads = {}
       /\ active_threads = 0

\* C9: once shutdown() has returned on a running pool, the running flag is
\* false, no worker thread is alive and get_stats() reports active_threads =
\* 0; and a further shutdown() returns in one step that changes nothing of
\* the pool or of the workers.
C9_ShutdownIdempotent ==
    /\ [](HasShutDown /\ PoolCallerIdle =>
            /\ ~pool.is_running_
            /\ LiveThreads = {}
            /\ active_threads = 0)
    /\ [][HasShutDown /\ ShutdownStep =>
            /\ caller'["main"].pc = "idle"
            /\ pool' = pool
            /\ worker' = worker
            /\ fault' = fault]_vars

\* A running pool was shut down, and shutdown() was called again and returned.
C9_Witness ==
    /\ PoolCallerIdle
    /\ PoolHist = << [op |-> "initialize", ret |-> TRUE, why |-> "started"],
                     [op |-> "shutdown", ret |-> TRUE, why |-> "stopped"],
                     [op |-> "shutdown", ret |-> TRUE, why |-> "not running"] >>

WorkerHist == worker[TheWorker].hist

\* The owner's last calls on the worker, oldest first, were these.
LastWorkerCalls(recs) ==
    /\ Len(WorkerHist) >= Len(recs)
    /\ SubSeq(WorkerHist, Len(WorkerHist) - Len(recs) + 1, Len(WorkerHist)) = recs

StartedThenStopped ==
    << [op |-> "start", ret |-> TRUE], [op |-> "stop", ret |-> TRUE] >>

\* start() returned true, stop() was called, and join() has been called.
JoinCalledAfterStop ==
    /\ worker[TheWorker].call = "join_wait"
    /\ LastWorkerCalls(StartedThenStopped)

\* ... and join() has returned, and no call has been made since.
JoinReturnedAfterStop ==
    /\ worker[TheWorker].call = "idle"
    /\ worker[TheWorker].alive
    /\ LastWorkerCalls(Append(StartedThenStopped, [op |-> "join", ret |-> TRUE]))

\* C10: for a worker whose start() returned true, stop() and then join()
\* terminates: the join() returns; and from then on (until another call)
\* is_running() is false and the thread is gone.
C10_StopJoinTerminates ==
    /\ JoinCalledAfterStop ~> JoinReturnedAfterStop
    /\ [](JoinReturnedAfterStop =>
            /\ ~worker[TheWorker].is_running_
            /\ worker[TheWorker].thread = "none")

C10_Witness == JoinReturnedAfterStop /\ worker[TheWorker].tasks_processed_ > 0

\* A unit of work of worker w raises an error in this step.
WorkRaises(w) == worker'[w].raised > worker[w].raised

\* C11: an error raised inside a unit of work is caught at the run-loop
\* boundary: the process lives, the worker's is_running_ stays true and its
\* thread is back at the loop's test.
C11_WorkErrorCaught ==
    [][\A w \in WorkerIds :
          WorkRaises(w) =>
              /\ fault' = "none"
              /\ worker'[w].is_running_
              /\ worker'[w].thread = "check"]_vars

\* The producer's try_push decides in this step (its test of tail_), and
\* fails exactly if the ring is full.
TryPushFailsIffFull ==
    (pc[Producer] = "tp_load_tail" /\ pc'[Producer] # "tp_load_tail")
    => (pc'[Producer] = "push_drop" <=> full(queues_[PushPriority(Producer)]))

\* Consumer t's try_pop decides in this step (its test of the ready flag),
\* and fails exactly if the ring is empty.
TryPopFailsIffEmpty(t) ==
    (pc[t] = "pp_load_ready" /\ <<pc[t], loc[t]>>' # <<pc[t], loc[t]>>)
    => (pc'[t] # "pp_read_key" <=> empty(queues_[PopPriority(t)]))

\* Consumer t's pop() returns false in this step, and every ring is empty.
PopFalseOnlyIfAllEmpty(t) ==
    (pc[t] = "pp_load_ready" /\ pc'[t] = "idle")
    => \A p \in Priorities : empty(queues_[p])

\* C12: with one producer and one consumer, whatever the other side is in
\* the middle of, try_push returns false iff the ring is full (size() =
\* capacity()), try_pop returns false iff the ring is empty (size() = 0), and
\* pop() returns false only when every ring is empty.
C12_FailsIffFullOrEmpty ==
    [][ /\ TryPushFailsIffFull
        /\ TryPopFailsIffEmpty("c1")
        /\ PopFalseOnlyIfAllEmpty("c1") ]_vars

LastQueueCall == calls[Len(calls)]
PopSucceeded == calls # <<>> /\ LastQueueCall.op = "pop" /\ LastQueueCall.ret
TrafficAccepted ==
    calls # <<>> /\ LastQueueCall.op = "push" /\ LastQueueCall.ret
                 /\ LastQueueCall.priority \in TrafficPriorities
StarvedQueued == \A p \in StarvedPriorities : ~empty(queues_[p])
C14_StrictPriorityStarves ==
    /\ []<>PopSucceeded
    /\ []<>TrafficAccepted
    /\ <>[]StarvedQueued
    /\ [](PopSucceeded => LastQueueCall.out.priority \in TrafficPriorities)

\* pop() has just returned a HIGH event, for the second time, while the LOW
\* and NORMAL events pushed before it are still queued.
C14_Witness ==
    /\ PopSucceeded
    /\ StarvedQueued
    /\ LastQueueCall.out.priority = HIGH
    /\ total_popped_ = 2
    /\ queues_[HIGH].tail_ = 2

\* C15: push() and pop() never block.  A thread inside a call can always
\* take its next step, whatever the other threads are doing; each of its
\* steps brings it nearer to the return, which is at most MaxOwnSteps steps
\* from the call; and a push() that finds its ring full makes no second
\* attempt: it counts the drop and returns, the ring untouched.
PushPath ==
    <<"push_seq", "tp_load_head", "tp_load_tail", "tp_write_key", "tp_write_seq",
      "tp_ready", "tp_store_head", "push_count">>
PushDropPath == <<"push_drop", "push_log">>
PopHitPath == <<"pp_read_key", "pp_read_seq", "pp_clear", "pp_store_tail", "pop_count">>
PopScanPath == <<"pp_load_tail", "pp_load_ready">>
PositionIn(path, label) == CHOOSE i \in 1 .. Len(path) : path[i] = label
OnPath(path, label) == \E i \in 1 .. Len(path) : path[i] = label
StepsToReturn(path, label) == Len(path) - PositionIn(path, label) + 1
MaxOwnSteps == Len(PopScanPath) * NUM_PRIORITIES + Len(PopHitPath)
\* The most steps thread t still has to take before its call returns.
StepsLeft(t) ==
    IF pc[t] = "idle" THEN 0
    ELSE IF OnPath(PushDropPath, pc[t]) THEN StepsToReturn(PushDropPath, pc[t])
    ELSE IF OnPath(PushPath, pc[t]) THEN StepsToReturn(PushPath, pc[t])
    ELSE IF OnPath(PopHitPath, pc[t]) THEN StepsToReturn(PopHitPath, pc[t])
    ELSE Len(PopHitPath) + Len(PopScanPath) * (NUM_PRIORITIES - loc[t].scan)
            + StepsToReturn(PopScanPath, pc[t])
OwnStep(t) ==
    IF t = Producer THEN ProducerStep(t, MaxPushesMC) ELSE ConsumerStep(t, MaxPopsMC)
InCall(t) == pc[t] # "idle"
Stepped(t) == pc'[t] # pc[t] \/ loc'[t] # loc[t]
StepNearsReturn(t) ==
    Stepped(t) =>
        IF InCall(t) THEN StepsLeft(t)' < StepsLeft(t) ELSE StepsLeft(t)' <= MaxOwnSteps
FullRingEndsPush(t) ==
    /\ (pc[t] = "tp_load_tail" /\ Stepped(t)
            /\ IsFullAt(loc[t].index, queues_[PushPriority(t)].tail_))
        => pc'[t] = "push_drop"
    /\ (pc[t] = "push_drop" /\ Stepped(t))
        => /\ pc'[t] = "push_log"
           /\ queues_' = queues_
           /\ total_pushed_' = total_pushed_
           /\ accepted' = accepted
           /\ drops_by_priority_'[PushPriority(t)] = drops_by_priority_[PushPriority(t)] + 1
C15_NeverBlocks ==
    /\ [](\A t \in QueueThreads : InCall(t) => ENABLED OwnStep(t))
    /\ [][\A t \in QueueThreads : StepNearsReturn(t)]_vars
    /\ [][FullRingEndsPush(Producer)]_vars



\* C16: initialize() returns false and leaves is_running_ false when a
\* component's initialize() fails (by returning false or by throwing) or a
\* worker's start() fails; it returns true, with is_running_ set, only after
\* every start() of the call returned true (or when the pool was running
\* already); and in a call in which a component fails no worker is created
\* and no start() is called.
InitializeReturns ==
    /\ Len(PoolHist') = Len(PoolHist) + 1
    /\ LastOf(PoolHist').op = "initialize"
InitializeAt(labels) == caller["main"].pc \in labels
EveryStartSucceeded ==
    /\ Len(pool.workers_) = NumWorkers
    /\ \A i \in 1 .. Len(pool.workers_) :
          /\ worker[pool.workers_[i]].hist # <<>>
          /\ LastOf(worker[pool.workers_[i]].hist) = [op |-> "start", ret |-> TRUE]
\* The calling thread neither creates a worker nor calls start() on one.
NoWorkerCreatedOrStarted ==
    \A w \in WorkerIds :
        /\ worker[w].alive \/ ~worker'[w].alive
        /\ worker'[w].call \notin {"start_spawn", "start_wait"}
              \/ worker[w].call \in {"start_spawn", "start_wait"}
ComponentFailed ==
    \/ InitializeAt({"init_engine", "init_injector"}) /\ InitializeReturns
    \/ InitializeAt({"init_engine", "init_injector"}) /\ caller'["main"].next = "catch"
    \/ InitializeAt({"clear", "clear_wait", "catch"}) /\ caller["main"].next = "catch"
    \/ InitializeAt({"catch"})
InitializeOutcome ==
    /\ InitializeReturns =>
        /\ LastOf(PoolHist').ret = pool'.is_running_
        /\ InitializeAt({"start"}) => (LastOf(PoolHist').ret <=> EveryStartSucceeded)
        /\ LastOf(PoolHist').ret => InitializeAt({"start"}) \/ pool.is_running_
    /\ ComponentFailed =>
        /\ NoWorkerCreatedOrStarted
        /\ InitializeReturns => ~LastOf(PoolHist').ret
    /\ (InitializeAt({"idle", "init_engine", "init_injector"}) /\ caller' # caller)
        => NoWorkerCreatedOrStarted /\ pool'.workers_ = pool.workers_
C16_InitializeFailsOnAnyFailure == [][InitializeOutcome]_vars

\* A first initialize() returned false because a start() failed, leaving
\* workers running; a second returned false because a component failed, and
\* the pool is not running.
C16_Witness ==
    /\ PoolCallerIdle
    /\ Len(PoolHist) = 2
    /\ PoolHist[1] = [op |-> "initialize", ret |-> FALSE, why |-> "start"]
    /\ PoolHist[2] = [op |-> "initialize", ret |-> FALSE, why |-> "component"]
    /\ ~pool.is_running_
    /\ \E w \in WorkerIds : worker[w].is_running_


\* C17: start() returns true only with is_running_ true at its return; when
\* its wait ends without the thread having set is_running_ it returns false;
\* and on a worker that is running it returns false at once, leaving the
\* thread and the flags as they are and creating no thread.
StartReturns(w) ==
    /\ worker'[w].alive
    /\ Len(worker'[w].hist) = Len(worker[w].hist) + 1
    /\ LastOf(worker'[w].hist).op = "start"
StartOutcome(w) ==
    /\ StartReturns(w) =>
        /\ LastOf(worker'[w].hist).ret => worker'[w].is_running_ /\ worker[w].call = "start_wait"
        /\ worker[w].call = "start_wait" =>
              (LastOf(worker'[w].hist).ret <=> worker[w].is_running_)
        /\ worker[w].call = "idle" =>
              /\ worker[w].is_running_
              /\ worker'[w] = Returned(worker[w], "start", FALSE)
    /\ (worker[w].call = "idle" /\ worker[w].is_running_)
        => worker'[w].call \notin {"start_spawn", "start_wait"}
    /\ worker'[w].thread = "entry" /\ worker[w].thread # "entry"
        => worker[w].call = "start_spawn" /\ ~worker[w].is_running_ /\ worker[w].thread = "none"
C17_StartReportsRunning == [][StartOutcome(TheWorker)]_vars

\* start() has returned true, and a second start() has returned false with
\* the worker still running on its one thread.
C17_Witness ==
    /\ WorkerHist = <<[op |-> "start", ret |-> TRUE], [op |-> "start", ret |-> FALSE]>>
    /\ worker[TheWorker].is_running_
    /\ worker[TheWorker].thread = "check"

\* C18: a worker's state moves only forward through Created, Starting,
\* Running, StopRequested, Stopped.  is_running_ becomes true only by the
\* worker's own thread entering run(); should_stop_ becomes true only on a
\* running worker; is_running_ becomes false only by the run-loop leaving
\* after it has seen should_stop_; and a step changes the state to the next
\* one or not at all, except that a start() on a stopped and joined worker
\* begins again at Created.
WorkerStates == <<"Created", "Starting", "Running", "StopRequested", "Stopped">>
StateOf(wr) ==
    IF wr.is_running_ THEN (IF wr.should_stop_ THEN "StopRequested" ELSE "Running")
    ELSE IF wr.thread = "entry" THEN "Starting"
    ELSE IF wr.thread = "done" \/ wr.should_stop_ THEN "Stopped"
    ELSE "Created"
StateRank(state) == CHOOSE i \in 1 .. Len(WorkerStates) : WorkerStates[i] = state
StartBegins(w) == worker[w].call = "idle" /\ worker'[w].call = "start_spawn"
ForwardOnly(w) ==
    (worker[w].alive /\ worker'[w].alive) =>
        /\ (~worker[w].is_running_ /\ worker'[w].is_running_)
              => worker[w].thread = "entry" /\ worker'[w].thread = "check"
        /\ (~worker[w].should_stop_ /\ worker'[w].should_stop_)
              => worker[w].is_running_
        /\ (worker[w].is_running_ /\ ~worker'[w].is_running_)
              => worker[w].should_stop_ /\ worker[w].thread = "check"
                    /\ worker'[w].thread = "done"
        /\ \/ StateOf(worker'[w]) = StateOf(worker[w])
           \/ StateRank(StateOf(worker'[w])) = StateRank(StateOf(worker[w])) + 1
           \/ /\ StartBegins(w)
              /\ StateOf(worker[w]) = "Stopped"
              /\ worker[w].thread = "none"
              /\ StateOf(worker'[w]) = "Created"
C18_StateMovesForward == [][ForwardOnly(TheWorker)]_vars

\* The worker was started, stopped and joined, and a second start() has
\* brought it to Running again.
C18_Witness ==
    /\ Len(WorkerHist) = 4
    /\ WorkerHist[3] = [op |-> "join", ret |-> TRUE]
    /\ WorkerHist[4] = [op |-> "start", ret |-> TRUE]
    /\ StateOf(worker[TheWorker]) = "Running"
    /\ worker[TheWorker].tasks_processed_ = 0


\* C19: stop() only sets should_stop_ (on a running worker): is_running_,
\* tasks_processed_ and the thread are as before.  A unit of work in flight
\* when the flag is set is not interrupted: the thread's next step finishes
\* it and counts it.  Once the flag is set no further unit begins, and the
\* thread's step at the loop's test leaves the loop.
StopReturns(w) ==
    /\ Len(worker'[w].hist) = Len(worker[w].hist) + 1
    /\ LastOf(worker'[w].hist).op = "stop"
ThreadMoves(w) == worker'[w].thread # worker[w].thread
StopIsCooperative(w) ==
    (worker[w].alive /\ worker'[w].alive) =>
        /\ StopReturns(w) =>
            /\ worker'[w].should_stop_ = (worker[w].should_stop_ \/ worker[w].is_running_)
            /\ worker'[w].is_running_ = worker[w].is_running_
            /\ worker'[w].tasks_processed_ = worker[w].tasks_processed_
            /\ worker'[w].thread = worker[w].thread
            /\ worker'[w].joinable = worker[w].joinable
        /\ (worker[w].thread = "work" /\ ThreadMoves(w)) =>
            /\ worker'[w].thread = "check"
            /\ worker'[w].tasks_processed_ = worker[w].tasks_processed_ + 1
            /\ worker'[w].is_running_
        /\ (worker[w].thread = "check" /\ worker[w].should_stop_ /\ ThreadMoves(w)) =>
            /\ worker'[w].thread = "done"
            /\ ~worker'[w].is_running_
            /\ worker'[w].tasks_processed_ = worker[w].tasks_processed_
        /\ (worker'[w].thread = "work" /\ ThreadMoves(w)) =>
            /\ worker[w].thread = "check"
            /\ ~worker[w].should_stop_
C19_StopOnlySetsFlag == [][StopIsCooperative(TheWorker)]_vars

\* stop() has returned while a unit of work is in flight: the flag is set,
\* the worker is still running and the unit is not yet counted.
C19_Witness ==
    /\ LastWorkerCalls(<<[op |-> "start", ret |-> TRUE], [op |-> "stop", ret |-> TRUE]>>)
    /\ worker[TheWorker].call = "idle"
    /\ worker[TheWorker].should_stop_
    /\ worker[TheWorker].is_running_
    /\ worker[TheWorker].thread = "work"
    /\ worker[TheWorker].tasks_processed_ = 0

\* C20: shutdown() has called stop() on every worker before it calls join()
\* on any; a step that releases a component handle is taken with no worker
\* thread in existence; and in no state is a worker thread in existence
\* while a handle is released.
HandleReleased(p) ==
    \/ p.event_queue_ = "null"
    \/ p.template_engine_ = "null"
    \/ p.text_injector_ = "null"
StopCalledOn(w) == \E k \in 1 .. Len(worker[w].hist) : worker[w].hist[k].op = "stop"
StopAllBeforeJoinAny ==
    caller["main"].pc \in {"join", "join_wait"}
        => \A i \in 1 .. Len(pool.workers_) : StopCalledOn(pool.workers_[i])
ReleaseAfterThreadsEnd ==
    (HandleReleased(pool') /\ ~HandleReleased(pool)) => LiveThreads = {}
NoThreadWhileReleased == HandleReleased(pool) => LiveThreads = {}
ShutdownOrder == []StopAllBeforeJoinAny /\ [][ReleaseAfterThreadsEnd]_vars
InShutdown ==
    \/ caller["main"].pc \in {"stop", "join", "join_wait", "shutdown"}
    \/ caller["main"].pc \in {"clear", "clear_wait"} /\ caller["main"].next = "shutdown"
ShutdownReturned ==
    /\ PoolCallerIdle
    /\ PoolHist # <<>>
    /\ LastOf(PoolHist) = [op |-> "shutdown", ret |-> TRUE, why |-> "stopped"]
    /\ LiveThreads = {}
C21_ShutdownReturns == InShutdown ~> ShutdownReturned

\* shutdown() has returned from a pool that initialize() had started: every
\* worker has been stopped, joined and destroyed.
C21_Witness ==
    /\ ShutdownReturned
    /\ Len(PoolHist) = 2
    /\ PoolHist[1] = [op |-> "initialize", ret |-> TRUE, why |-> "started"]
    /\ pool.workers_ = <<>>
    /\ \A w \in WorkerIds : ~worker[w].alive

\* C22: destroying the pool is safe in every state it can be in: the
\* destructor does not end the process by destroying a thread handle that is
\* still joinable, and once the object is gone no worker and no worker thread
\* is left.
InDestructor == caller["main"].dtor
PoolGone == caller["main"].pc = "gone"
C22_DestructionSafe ==
    /\ InDestructor => fault = "none"
    /\ PoolGone => LiveThreads = {} /\ pool.workers_ = <<>>


\* C23: the size reported for a ring never exceeds the ring's capacity():
\* neither the size a thread gets from size() while pushes and pops go on
\* between its two loads, nor the size of any ring in any state.
ReportedSize == loc["monitor"].n
C23_SizeAtMostCapacity ==
    /\ ReportedSize <= capacity
    /\ \A p \in Priorities : size(queues_[p]) <= capacity

\* size() returns a value computed from a head index loaded before the
\* producer wrapped around and a tail index loaded after pops: head < tail.
C23_Witness ==
    /\ pc["monitor"] = "idle"
    /\ ReportedSize > 0
    /\ loc["monitor"].index < queues_[prodPriority].tail_
    /\ ReportedSize # size(queues_[prodPriority])

\* C24: a ring holds one event less than it has slots: with no pop so far,
\* the pushes to a priority succeed up to the capacity()-th, that is the
\* (Capacity - 1)-th, and fail from the next one on; and full() is true
\* exactly when size() is Capacity - 1, which is when the ring holds
\* capacity() events.
NoPopYet == \A i \in 1 .. Len(calls) : calls[i].op # "pop"
PushesBefore(p, i) ==
    Cardinality({j \in 1 .. i - 1 : calls[j].op = "push" /\ calls[j].priority = p})
C24_CapacityIsSlotsMinusOne ==
    /\ capacity = QUEUE_SIZE - 1
    /\ NoPopYet =>
          \A i \in 1 .. Len(calls) :
              calls[i].op = "push" =>
                  (calls[i].ret <=> PushesBefore(calls[i].priority, i) < capacity)
    /\ \A p \in Priorities :
          /\ full(queues_[p]) <=> size(queues_[p]) = QUEUE_SIZE - 1
          /\ full(queues_[p]) <=> QueuedAt(p, calls) = capacity

\* capacity() pushes to one priority went in and the next one failed.
C24_Witness ==
    /\ NoPopYet
    /\ Len(calls) = capacity + 1
    /\ \A i \in 1 .. Len(calls) : calls[i].priority = HIGH
    /\ \A i \in 1 .. capacity : calls[i].ret
    /\ ~calls[capacity + 1].ret
    /\ full(queues_[HIGH])

\* C25: the sequence ids of the events push() accepted, taken in push order,
\* are strictly increasing (hence pairwise distinct) whatever the priorities
\* of the events, all ids coming from the one sequence_counter_; and pop()
\* chooses its event by priority and by position in the ring alone: it
\* returns the oldest queued event of the highest non-empty priority, also
\* when an event with a smaller id is queued.
AcceptedPushes == SelectSeq(calls, LAMBDA c : c.op = "push" /\ c.ret)
HighestQueued(cs) ==
    CHOOSE p \in Priorities :
        QueuedAt(p, cs) > 0 /\ \A q \in Priorities : q > p => QueuedAt(q, cs) = 0
OldestQueuedAt(p, cs) == AcceptedAt(p, cs)[Len(PoppedAt(p, cs)) + 1]
C25_SequenceIdsIncrease ==
    /\ [](\A i, j \in 1 .. Len(AcceptedPushes) :
            i < j => AcceptedPushes[i].out.sequence_id < AcceptedPushes[j].out.sequence_id)
    /\ [](\A i \in 1 .. Len(calls) :
            calls[i].op = "push" => calls[i].out.sequence_id < sequence_counter_)
    /\ [][(CallStep("pop") /\ LastCall(calls').ret) =>
            LastCall(calls').out = OldestQueuedAt(HighestQueued(calls), calls)]_vars

\* Events of different priorities were accepted, and a pop returned an event
\* while one with a smaller id stayed queued.
C25_Witness ==
    /\ Cardinality({AcceptedPushes[i].priority : i \in 1 .. Len(AcceptedPushes)}) >= 2
    /\ calls # <<>>
    /\ LastCall(calls).op = "pop"
    /\ LastCall(calls).ret
    /\ \E p \in Priorities :
          /\ QueuedAt(p, calls) > 0
          /\ OldestQueuedAt(p, calls).sequence_id < LastCall(calls).out.sequence_id

\* C26: get_stats(), total_size(), is_healthy() and utilization() of the
\* queue and get_stats() of the pool change nothing: the rings (contents and
\* indices), the counters, the sequence counter, the workers and the pool are
\* after the call what they were before it.
ReadOps == {"get_stats", "total_size", "is_healthy", "utilization", "pool_get_stats"}
ReadStep == Len(calls') = Len(calls) + 1 /\ LastCall(calls').op \in ReadOps
C26_ReadsChangeNothing ==
    [][ReadStep => UNCHANGED <<qvars, wvars, pvars>>]_vars

\* Every read was called on a queue that holds an event and has dropped none,
\* with the pool's six workers running.
C26_Witness ==
    /\ {calls[i].op : i \in 1 .. Len(calls)} \cap ReadOps = ReadOps
    /\ total_pushed_ = 1
    /\ total_size = 1
    /\ LastCall(calls).op = "pool_get_stats"
    /\ LastCall(calls).out.active_threads = NumWorkers

\* C27: initialize() and shutdown() called from different threads are
\* serialized: at most one of the two threads is inside a call (past the
\* lock), so no thread creates or starts workers while the other stops,
\* joins or clears them, and a call that has begun returns before the other
\* thread's call begins.
InsideCall(c) == caller[c].pc # "idle"
CreatingOrStarting(c) ==
    caller[c].pc \in {"init_engine", "init_injector", "create", "start", "start_wait", "catch"}
        \/ (caller[c].pc \in {"clear", "clear_wait"} /\ caller[c].next \in {"create", "catch"})
StoppingJoiningClearing(c) ==
    caller[c].pc \in {"stop", "join", "join_wait", "shutdown"}
        \/ (caller[c].pc \in {"clear", "clear_wait"} /\ caller[c].next = "shutdown")
C27_LifecycleSerialized ==
    /\ \A c, d \in PoolCallers : (c # d /\ InsideCall(c)) => ~InsideCall(d)
    /\ \A c, d \in PoolCallers : ~(CreatingOrStarting(c) /\ StoppingJoiningClearing(d))
    /\ \A c \in PoolCallers : InsideCall(c) <=> pool.mutex_ = c

\* shutdown() is stopping the workers while the other thread, which has
\* initialized the pool once, is ready to call initialize() again.
C27_Witness ==
    /\ StoppingJoiningClearing("other")
    /\ caller["other"].pc = "join_wait"
    /\ caller["main"].pc = "idle"
    /\ caller["main"].hist # <<>>

\* C28: when initialize() has returned true the pool holds one input-monitor
\* worker, K event-processor workers, one text-injector, one health-monitor
\* and one config-watcher worker, all running, K being the configured number
\* of processor threads (the constructor's num_threads, by default the
\* host's core count): whatever value in 1 .. MaxProcessorThreads K has.
WorkersOfType(type) ==
    Cardinality({i \in 1 .. Len(pool.workers_) : worker[pool.workers_[i]].type_ = type})
InitializeSucceeded ==
    /\ PoolCallerIdle
    /\ PoolHist # <<>>
    /\ LastOf(PoolHist) = [op |-> "initialize", ret |-> TRUE, why |-> "started"]
TopologyWith(k) ==
    /\ WorkersOfType("INPUT_MONITOR") = 1
    /\ WorkersOfType("EVENT_PROCESSOR") = k
    /\ WorkersOfType("TEXT_INJECTOR") = 1
    /\ WorkersOfType("HEALTH_MONITOR") = 1
    /\ WorkersOfType("CONFIG_WATCHER") = 1
    /\ Len(pool.workers_) = k + 4
    /\ \A i \in 1 .. Len(pool.workers_) : worker[pool.workers_[i]].is_running_
C28_TopologyAsConfigured ==
    \A k \in 1 .. MaxProcessorThreads : InitializeSucceeded => TopologyWith(k)

\* C29: a stop request is never lost: when start() has been called on a
\* worker, whether it returned true or false, and then stop() and then
\* join(), the join() returns and the worker's thread has ended.
StartThenStopThenJoin(ret) ==
    /\ LastWorkerCalls(<< [op |-> "start", ret |-> ret], [op |-> "stop", ret |-> TRUE] >>)
    /\ worker[TheWorker].call = "join_wait"
JoinReturnedThreadEnded ==
    /\ worker[TheWorker].call = "idle"
    /\ WorkerHist # <<>>
    /\ LastOf(WorkerHist).op = "join"
    /\ worker[TheWorker].thread = "none"
C29_StopNeverLost ==
    \A ret \in BOOLEAN : StartThenStopThenJoin(ret) ~> JoinReturnedThreadEnded

\* C30: start() never assigns a new thread over a handle that is still
\* joinable: whenever start() is at `thread_ = std::thread(...)`, the thread
\* spawned before (if any) has been joined, so thread_ is not joinable and
\* no earlier thread of the worker exists.
AtThreadAssignment(w) == worker[w].alive /\ worker[w].call = "start_spawn"
C30_StartNeverOverJoinable ==
    \A w \in WorkerIds :
        AtThreadAssignment(w) => ~worker[w].joinable /\ worker[w].thread = "none"

\* C31: with one producer and one consumer running, the size a thread gets
\* from size() never exceeds the number of events pushed and not yet popped,
\* and a ring that holds no event is not reported full.  Stated in its
\* weakest form: the size returned is at most the number of events the
\* producer has pushed so far at all (which no number of events held, at any
\* moment of the call, exceeds); and when the size returned is Capacity - 1,
\* which is what full() and is_healthy() test, events are in the ring.
EventsHeld == size(queues_[prodPriority])
C31_SizeAtMostHeld ==
    /\ ReportedSize <= Len(accepted)
    /\ (pc["monitor"] = "idle" /\ ReportedSize = QUEUE_SIZE - 1 /\ AllIdle) => EventsHeld > 0

\* C32: get_stats() called by one thread while another runs initialize() or
\* shutdown() never reads through a handle that has been released, nor a
\* worker that has been destroyed: when it is about to use event_queue_ or
\* template_engine_ the handle is set, and the worker it is about to ask
\* is_running() exists.
StatsAt(labels) == caller["other"].pc \in labels
C32_StatsNeverReadReleased ==
    /\ StatsAt({"gs_queue"}) => pool.event_queue_ = "live"
    /\ StatsAt({"gs_engine"}) => pool.template_engine_ = "live"
    /\ (StatsAt({"gs_workers"}) /\ caller["other"].i <= Len(pool.workers_)) =>
          worker[pool.workers_[caller["other"].i]].alive

\* C33: once reset_stats() has been called, at any point, total_pushed >=
\* total_popped and total_pushed - total_popped = total_size() hold after
\* every following push and pop.
ResetCalled == \E i \in 1 .. Len(calls) : calls[i].op = "reset_stats"
C33_CountersSurviveReset ==
    ResetCalled =>
        /\ total_pushed_ >= total_popped_
        /\ total_pushed_ - total_popped_ = total_size

\* C34: an initialize() made after shutdown() has returned never uses a
\* dependency handle that was released: when it is about to call
\* template_engine_->initialize() or text_injector_->initialize() the
\* handle is set, and the process does not die of a call through a null
\* handle.
ShutdownHasReturned ==
    \E i \in 1 .. Len(PoolHist) :
        PoolHist[i] = [op |-> "shutdown", ret |-> TRUE, why |-> "stopped"]
C34_ReinitializeUsesNoReleasedHandle ==
    ShutdownHasReturned =>
        /\ InitializeAt({"init_engine"}) => pool.template_engine_ = "live"
        /\ InitializeAt({"init_injector"}) => pool.text_injector_ = "live"
        /\ fault # "null_deref"

\* C35: with one producer and one consumer, whenever no try_push and no
\* try_pop is in progress, in every ring the slots whose ready flag is true
\* are exactly the slots from tail_ up to but not including head_ (modulo
\* Capacity), size() of them; and the slot try_push writes its item to never
\* has its ready flag set.
InTryPush == {"tp_load_tail", "tp_write_key", "tp_write_seq", "tp_ready", "tp_store_head"}
InTryPop == {"pp_load_ready", "pp_read_key", "pp_read_seq", "pp_clear", "pp_store_tail"}
NoRingCallInProgress == \A t \in QueueThreads : pc[t] \notin InTryPush \cup InTryPop
ReadySlots(r) == {i \in Indices : r.slots_[i].ready}
FromTailToHead(r) == {i \in Indices : (i - r.tail_) % QUEUE_SIZE < size(r)}
C35_ReadySlotsAreTailToHead ==
    /\ NoRingCallInProgress =>
          \A p \in Priorities :
              /\ ReadySlots(queues_[p]) = FromTailToHead(queues_[p])
              /\ Cardinality(ReadySlots(queues_[p])) = size(queues_[p])
    /\ pc[Producer] \in {"tp_write_key", "tp_write_seq", "tp_ready"} =>
          ~queues_[PushPriority(Producer)].slots_[loc[Producer].index].ready

\* No call is in progress on a ring that has wrapped around: two events in
\* it, head_ below tail_.
C35_Witness ==
    /\ NoRingCallInProgress
    /\ pc[Producer] = "idle"
    /\ queues_[prodPriority].head_ < queues_[prodPriority].tail_
    /\ size(queues_[prodPriority]) = 2
    /\ Len(returned) >= 2

\* C36: the rings are independent: a push to priority p is accepted exactly
\* when ring p holds fewer than capacity() events, whatever the other rings
\* hold, and whether accepted or dropped it leaves the ring and the drop
\* counter of every other priority as they were.
PushStepAt(p) == CallStep("push") /\ LastCall(calls').priority = p
C36_RingsIndependent ==
    [][\A p \in Priorities :
          PushStepAt(p) =>
              /\ LastCall(calls').ret <=> size(queues_[p]) < capacity
              /\ \A q \in Priorities \ {p} :
                    /\ queues_'[q] = queues_[q]
                    /\ drops_by_priority_'[q] = drops_by_priority_[q]]_vars

\* Ring HIGH is full and has dropped an event; the push to LOW that follows
\* is accepted.
C36_Witness ==
    /\ full(queues_[HIGH])
    /\ drops_by_priority_[HIGH] = 1
    /\ calls # <<>>
    /\ LastCall(calls) = CallRec("push", LOW, LastCall(calls).key_event, TRUE, LastCall(calls).out)
    /\ size(queues_[LOW]) = 1

\* C37: a push whose priority is none of the four returns false and changes
\* nothing: no ring, no drop counter, not total_pushed, and no sequence id
\* is used up.
InvalidPushStep == CallStep("push") /\ LastCall(calls').priority >= NUM_PRIORITIES
C37_InvalidPriorityRejected ==
    [][InvalidPushStep => ~LastCall(calls').ret /\ UNCHANGED <<qvars, wvars, pvars>>]_vars

\* A push with an invalid priority was refused between two accepted pushes;
\* the second got the id that follows the first one's.
C37_Witness ==
    /\ Len(calls) >= 3
    /\ calls[Len(calls) - 1].op = "push"
    /\ calls[Len(calls) - 1].priority >= NUM_PRIORITIES
    /\ ~calls[Len(calls) - 1].ret
    /\ LastCall(calls).op = "push"
    /\ LastCall(calls).ret
    /\ LastCall(calls).out.sequence_id = 1
    /\ sequence_counter_ = 2

\* C38: every push with a valid priority, accepted or dropped, takes the
\* value of the sequence counter as its id and advances the counter by
\* exactly one; pop() and reset_stats() leave the counter alone and it never
\* decreases; so the id of a push made after a reset is greater than the id
\* of every push made before it.
ValidPushStep == CallStep("push") /\ LastCall(calls').priority < NUM_PRIORITIES
ValidPushAt(i) == calls[i].op = "push" /\ calls[i].priority < NUM_PRIORITIES
C38_SequenceCounterAdvances ==
    /\ [][/\ ValidPushStep =>
               /\ LastCall(calls').out.sequence_id = sequence_counter_
               /\ sequence_counter_' = sequence_counter_ + 1
          /\ (CallStep("pop") \/ CallStep("reset_stats")) =>
               sequence_counter_' = sequence_counter_
          /\ sequence_counter_' >= sequence_counter_]_vars
    /\ [](\A i, j \in 1 .. Len(calls) :
            (i < j /\ ValidPushAt(i) /\ ValidPushAt(j)) =>
                calls[i].out.sequence_id < calls[j].out.sequence_id)

\* A push was dropped and used up an id, the statistics were reset, and the
\* push after the reset got the next id.
C38_Witness ==
    /\ Len(calls) = capacity + 3
    /\ \A i \in 1 .. capacity + 1 : ValidPushAt(i) /\ calls[i].priority = LOW
    /\ ~calls[capacity + 1].ret
    /\ calls[capacity + 2].op = "reset_stats"
    /\ ValidPushAt(capacity + 3)
    /\ calls[capacity + 3].out.sequence_id = capacity + 1
    /\ total_pushed_ = 1

\* C39: FixedSizePool, under any interleaving of allocate() and
\* deallocate() by several threads, each block deallocated once by the thread
\* that holds it.  A block is out from the fetch_add of the allocate() that
\* took it to the fetch_sub of the deallocate() that gave it back.
\*   - no block is with two threads at once, and allocate() never returns a
\*     block that is still with a thread;
\*   - allocate() returns nullptr exactly when all BlockCount blocks are with
\*     threads (held, or passed to a deallocate() that has not yet put them
\*     back);
\*   - whenever the mutex is free, the free list holds exactly the blocks
\*     that are with no thread, each once, so that a freed block is what a
\*     later allocate() returns;
\*   - allocated_count(), a load of allocated_count_ taken without the
\*     mutex, is the number of blocks that are out.
Taking(t) ==
    IF holder[t].pc \in {"al_count", "al_peak"} THEN {holder[t].result} ELSE {}
Giving(t) ==
    IF holder[t].pc \in {"de_lock", "de_push", "de_count"} THEN {holder[t].ptr} ELSE {}
With(t) == holder[t].local_ptrs \cup Taking(t) \cup Giving(t)
WithAny == UNION {With(t) : t \in MemThreads}
Out ==
    UNION {holder[t].local_ptrs \cup Giving(t)
           \cup (IF holder[t].pc = "al_peak" THEN {holder[t].result} ELSE {})
           : t \in MemThreads}
RECURSIVE FreeWalk(_, _)
FreeWalk(b, n) ==
    IF b = nullptr \/ n = 0 THEN <<>> ELSE <<b>> \o FreeWalk(fpool.next[b], n - 1)
FreeList == FreeWalk(fpool.free_list_, BlockCount + 1)
FreeBlocks == {FreeList[i] : i \in 1 .. Len(FreeList)}
AllocateReturned(t) ==
    /\ holder[t].pc \in {"al_take", "al_peak"}
    /\ holder'[t].pc = "idle"
C39_BlocksApart ==
    /\ \A t, u \in MemThreads : t # u => With(t) \cap With(u) = {}
    /\ \A t \in MemThreads : Taking(t) \cap holder[t].local_ptrs = {}
    /\ \A t \in MemThreads : nullptr \notin With(t)
C39_FreeListIsTheRest ==
    fpool.mutex_ = "free" =>
        /\ FreeBlocks = Blocks \ WithAny
        /\ Len(FreeList) = Cardinality(FreeBlocks)
C39_CountIsOut == fpool.allocated_count_ = Cardinality(Out)
C39_NullWhenAllOut ==
    \A t \in MemThreads :
        AllocateReturned(t) =>
            /\ holder'[t].result = nullptr <=> WithAny \ Taking(t) = Blocks
            /\ holder'[t].result = nullptr <=> Out \ Taking(t) = Blocks
            /\ holder'[t].last = [op |-> "allocate", block |-> holder'[t].result]
C39_PoolHandsOutEachBlockOnce ==
    /\ [](C39_BlocksApart /\ C39_FreeListIsTheRest /\ C39_CountIsOut)
    /\ [][C39_NullWhenAllOut]_vars
\* Witness: a thread was handed a block again that it had freed before, it
\* and another thread hold all the blocks between them, and that other
\* thread's allocate() has returned nullptr.
C39_Witness ==
    \E t, u \in MemThreads :
        /\ t # u
        /\ holder[t].local_ptrs # {} /\ holder[u].local_ptrs # {}
        /\ holder[t].local_ptrs \cup holder[u].local_ptrs = Blocks
        /\ holder[t].last.op = "allocate"
        /\ holder[t].last.block \in holder[t].freed \cap holder[t].local_ptrs
        /\ holder[u].last = [op |-> "allocate", block |-> nullptr]
        /\ fpool.allocated_count_ = BlockCount

====
